---- MODULE Spec2Model ----
(***************************************************************************)
(* Publish/notify orchestration of git-gemini-cli.                         *)
(*                                                                         *)
(* The repository holds several generations of the publish flow.  Each one *)
(* is a value of `variant`, fixed for a run:                               *)
(*   runner_part002        runner.CorePublisherRunner.Run with an injected *)
(*                         writer, URL signer and notifier                 *)
(*                         (src/unnamed/part_002, src/unnamed/part_003,    *)
(*                         built by src/unnamed/part_000)                  *)
(*   runner_publish_runner CorePublisherRunner.Run with writer + notifier  *)
(*                         (src/internal/runner/publish_runner.go), the    *)
(*                         notifier resolving the URL itself               *)
(*                         (src/internal/adapters/slack_adapter.go:215),   *)
(*                         dependencies from InitPublisherAndSigner        *)
(*                         (src/internal/adapters/publisher_adapter.go)    *)
(*   runner_part001        CorePublisherRunner.Run that builds writer and  *)
(*                         signer itself (src/unnamed/part_001)            *)
(*   cmd_part007           publishCommand of src/unnamed/part_007:45 with  *)
(*                         SlackAdapter.Notify of slack_adapter.go:52      *)
(*   cmd_publish_v1        publishCommand of src/cmd/publish.go:62         *)
(*   cmd_publish_v2        publishCommand of src/cmd/publish.go:332        *)
(*                                                                         *)
(* Strings are sequences of one-character strings, so that prefix tests,   *)
(* splitting and formatting are computed and not assumed.                  *)
(***************************************************************************)
EXTENDS Integers, Sequences, FiniteSets, TLC

\* Longest bucket/key part of a storage URI that is enumerated.
MaxBodyLen == 3

\* Longest local path that is enumerated.
MaxPathLen == 3

\* Longest SSH key path that is enumerated.
MaxKeyLen == 3

\* Longest free part of a repository URL that is enumerated.
MaxRepoLen == 3

\* Longest owner or repository name that is enumerated.
MaxNameLen == 2

\* ------------------------------------------------------------------------
\* String constants of the source
\* ------------------------------------------------------------------------
GsPrefix == <<"g", "s", ":", "/", "/">>
S3Prefix == <<"s", "3", ":", "/", "/">>
FilePrefix == <<"f", "i", "l", "e", ":", "/", "/">>
HttpsPrefix == <<"h", "t", "t", "p", "s", ":", "/", "/">>
DotS3Dot == <<".", "s", "3", ".">>
S3Dot == <<"s", "3", ".">>
AmazonawsCom == <<".", "a", "m", "a", "z", "o", "n", "a", "w", "s", ".", "c", "o", "m">>
Slash == <<"/">>
defaultAWSRegion == <<"a", "p", "-", "n", "o", "r", "t", "h", "e", "a", "s", "t", "-", "1">>
EmptyString == << >>

\* Minutes of validity asked of the signer.
signedURLExpiration == 30
signedURLExpirationCmd == 15

\* ------------------------------------------------------------------------
\* strings package
\* ------------------------------------------------------------------------
HasPrefix(s, p) == Len(s) >= Len(p) /\ SubSeq(s, 1, Len(p)) = p

TrimPrefix(s, p) == IF HasPrefix(s, p) THEN SubSeq(s, Len(p) + 1, Len(s)) ELSE s

\* Position of the first occurrence of the one-character string c, 0 if none.
Index(s, c) ==
    IF \E i \in 1..Len(s) : s[i] = c
    THEN CHOOSE i \in 1..Len(s) : s[i] = c /\ \A j \in 1..(i - 1) : s[j] # c
    ELSE 0

\* strings.SplitN(s, sep, 2)
SplitN2(s, sep) ==
    LET i == Index(s, sep)
    IN  IF i = 0 THEN <<s>> ELSE <<SubSeq(s, 1, i - 1), SubSeq(s, i + 1, Len(s))>>

\* ------------------------------------------------------------------------
\* Scheme detection (remoteio)
\* ------------------------------------------------------------------------
IsGCSURI(uri) == HasPrefix(uri, GsPrefix)

IsS3URI(uri) == HasPrefix(uri, S3Prefix)

\* ------------------------------------------------------------------------
\* Inputs
\* ------------------------------------------------------------------------
BodyChars == {"b", "k", "/"}

RECURSIVE SeqsUpTo(_, _)
SeqsUpTo(S, n) ==
    IF n = 0 THEN {<< >>}
    ELSE LET shorter == SeqsUpTo(S, n - 1)
         IN  shorter \cup {Append(s, c) : s \in {t \in shorter : Len(t) = n - 1}, c \in S}

Bodies == SeqsUpTo(BodyChars, MaxBodyLen)

StorageURIs == {p \o b : p \in {GsPrefix, S3Prefix, FilePrefix}, b \in Bodies}

WebhookURLs == {EmptyString, <<"h", "o", "o", "k">>}

AwsRegionEnv == {EmptyString, <<"u", "s">>}

RunnerVariants == {"runner_part002", "runner_publish_runner", "runner_part001"}

CmdVariants == {"cmd_part007", "cmd_publish_v1", "cmd_publish_v2"}

Variants == RunnerVariants \cup CmdVariants

\* ------------------------------------------------------------------------
\* Values
\* ------------------------------------------------------------------------
\* error values: kind "nil" is Go's nil error; an error wraps a cause and
\* may name a URI; "panic" is a run that ended in a runtime panic.
NilErr == [kind |-> "nil", msg |-> "", uri |-> EmptyString, cause |-> ""]

Err(msg, uri, cause) == [kind |-> "error", msg |-> msg, uri |-> uri, cause |-> cause]

Panic(msg) == [kind |-> "panic", msg |-> msg, uri |-> EmptyString, cause |-> msg]

Running == [kind |-> "running", msg |-> "", uri |-> EmptyString, cause |-> ""]

\* fmt.Errorf("...: %w", err): a new message around the same cause.
Wrap(msg, uri, err) == Err(msg, uri, err.cause)

NoMessage == [link |-> EmptyString, text |-> EmptyString]

NoSignReq == [method |-> "", minutes |-> 0]

\* What the git adapter returns: the output string, the boolean of
\* CheckRemoteBranchExists, and the error.
GitNil == [kind |-> "nil", msg |-> "", cause |-> "", output |-> EmptyString,
           ref |-> EmptyString]

GitErr(msg, cause, output) ==
    [kind |-> "error", msg |-> msg, cause |-> cause, output |-> output, ref |-> EmptyString]

\* fmt.Errorf("... '%s' ...: %w", ref, err): the message names the ref.
WrapRef(msg, ref, err) ==
    [kind |-> "error", msg |-> msg, cause |-> err.cause, output |-> err.output, ref |-> ref]

NoFault == [at |-> 0, how |-> "ok"]

NoGitOp == [name |-> "none", base |-> EmptyString, feature |-> EmptyString, pre |-> {},
            fault |-> NoFault, printed |-> EmptyString]

NoGitRet == [out |-> EmptyString, exists |-> FALSE, err |-> GitNil]

NoDiff == [base |-> EmptyString, feature |-> EmptyString, range |-> EmptyString,
           issued |-> FALSE]

NoSshCmd == [set |-> FALSE, value |-> EmptyString]

\* No repository path yet.
NoRepoPath == [set |-> FALSE, value |-> EmptyString]

\* No branch has a commit.
NoCommits == [b \in {} |-> 0]

\* A local repository that tracks nothing and has nothing checked out.
NoWork == [tracking |-> NoCommits, heads |-> NoCommits, branch |-> EmptyString]

\* The call before was not a Cleanup that returned nil.
NoCleanup == [ok |-> FALSE, fs |-> {}, refs |-> {}, work |-> NoWork]

VARIABLES
    variant,      \* which generation of the publish flow runs
    storageURI,   \* cfg.StorageURI / publishFlags.URI
    webhookURL,   \* SLACK_WEBHOOK_URL
    awsRegion,    \* AWS_REGION
    pc,           \* position of the run
    events,       \* external calls made so far, in order
    urlSigner,    \* "unset", "nil" or "ok"
    publicURL,    \* the resolved public URL, once resolution ran
    signReq,      \* method and expiry of the GenerateSignedURL request
    message,      \* link target and display text handed to SendTextWithHeader
    logs,         \* what was logged
    notifyErr,    \* what the notifier returned to its caller
    result,       \* what the run returned
    command,      \* the entry point that runs review and publish, or "none"
    review,       \* what the review runner produced
    stdout,       \* what was printed to standard output
    pipelineErr,  \* what pipeline.ReviewAndPublish returned
    localPath,    \* LocalGitAdapter.LocalPath
    sshKeyPath,   \* LocalGitAdapter.SSHKeyPath
    insecureSkip, \* LocalGitAdapter.InsecureSkipHostKeyCheck
    fs,           \* the files and directories at and around the local path
    refs,         \* the branches b for which origin/b resolves in the local repository
    gitCalls,     \* the git subprocesses the current adapter call launched, in order
    gitOp,        \* the adapter call made last, its arguments and the state it found
    gitRet,       \* what that call returned
    prevDiff,     \* the diff command issued by the GetCodeDiff call before this one
    sshCmd,       \* the GIT_SSH_COMMAND value getEnvWithSSH built last
    repoURL,      \* cfg.RepoURL
    repoPath,     \* what getRepositoryPath returned, once it ran
    repoLine,     \* the repository line of the content handed to SendTextWithHeader
    runCtx,       \* the context handed to Run: "live" or "cancelled"
    origin,       \* the remote repository: the commit of each of its branches
    work,         \* the local repository: remote-tracking commits, local branches, HEAD
    baseBranch,   \* LocalGitAdapter.BaseBranch
    prevCleanup,  \* what the Cleanup call right before the last adapter call left
    procs         \* the concurrent callers of CloneOrUpdate, each with its position

\* The state of the caller of the publish flow.
callerVars == <<command, review, stdout, pipelineErr>>

\* The state of the git adapter.
gitVars == <<localPath, sshKeyPath, insecureSkip, fs, refs, gitCalls, gitOp, gitRet,
             prevDiff, sshCmd>>

\* The state of the notification content built from the repository URL.
repoVars == <<repoURL, repoPath, repoLine>>

\* The remote repository and the contents of the local one.
workVars == <<origin, work, baseBranch, prevCleanup>>

\* The state of the parts that run on their own.
restVars == <<repoVars, runCtx, workVars, procs>>

\* The state the publish flow never touches.
outerVars == <<callerVars, gitVars, restVars>>

\* The state the steps of Run that take the context never touch.
beyondRun == <<callerVars, gitVars, repoVars, workVars, procs>>

\* No git adapter is in use.
GitIdle ==
    /\ localPath = EmptyString
    /\ sshKeyPath = EmptyString
    /\ insecureSkip = FALSE
    /\ fs = {}
    /\ refs = {}
    /\ gitCalls = << >>
    /\ gitOp = NoGitOp
    /\ gitRet = NoGitRet
    /\ prevDiff = NoDiff
    /\ sshCmd = NoSshCmd

\* No notification content is being built.
RepoIdle ==
    /\ repoURL = EmptyString
    /\ repoPath = NoRepoPath
    /\ repoLine = NoRepoPath

\* No repository has been cloned or fetched from.
WorkIdle ==
    /\ origin = NoCommits
    /\ work = NoWork
    /\ baseBranch = EmptyString
    /\ prevCleanup = NoCleanup

RestIdle ==
    /\ RepoIdle
    /\ runCtx = "live"
    /\ WorkIdle
    /\ procs = << >>

vars == <<variant, storageURI, webhookURL, awsRegion, pc, events, urlSigner,
          publicURL, signReq, message, logs, notifyErr, result, outerVars>>

Init ==
    /\ variant \in Variants
    /\ storageURI \in StorageURIs
    /\ webhookURL \in WebhookURLs
    /\ awsRegion \in AwsRegionEnv
    /\ pc = "init"
    /\ events = << >>
    /\ urlSigner = "unset"
    /\ publicURL = EmptyString
    /\ signReq = NoSignReq
    /\ message = NoMessage
    /\ logs = {}
    /\ notifyErr = Running
    /\ result = Running
    /\ command = "none"
    /\ review = "result"
    /\ stdout = << >>
    /\ pipelineErr = Running
    /\ GitIdle
    /\ RestIdle

\* ------------------------------------------------------------------------
\* Control flow of the callers
\* ------------------------------------------------------------------------
\* Where a run goes once the write returned success.
AfterWrite(v) ==
    CASE v \in {"runner_part002", "cmd_publish_v1"} -> "resolve"
      [] v = "cmd_part007" -> "httpclient"
      [] OTHER -> "notify"

\* Mutant: the steps after the write are started without writing.
AfterInitSkipsWrite(v) == AfterWrite(v)

\* Where a run goes once writer (and signer) exist.
AfterInit(v) == "write"

\* Mutant: the error of a step is dropped and the run goes on.
ReturnOrGoIgnoringErr(err, next) == [pc |-> next, result |-> Running]

\* A step that returned err to the caller `if err != nil { return err }`.
ReturnOrGo(err, next) ==
    IF err.kind = "nil" THEN [pc |-> next, result |-> Running]
    ELSE [pc |-> "done", result |-> err]

\* ------------------------------------------------------------------------
\* Construction of writer and signer
\* ------------------------------------------------------------------------
\* Mutant: `else` in place of `else if IsS3URI`, every other scheme is taken
\* for S3.
InitPublisherAndSignerResultElseS3(uri, factoryOK, signerOK, publisherOK) ==
    IF ~factoryOK THEN
        [err |-> Err("factory init failed", uri, "NewClientFactory"),
         events |-> <<IF IsGCSURI(uri) THEN "gcs_factory" ELSE "s3_factory">>,
         signer |-> "unset"]
    ELSE
        [err |-> IF signerOK /\ publisherOK THEN NilErr
                 ELSE Err("publisher init failed", EmptyString, "NewPublisher"),
         events |-> IF IsGCSURI(uri) THEN <<"gcs_factory", "gcs_signer_ctor", "new_publisher">>
                    ELSE <<"s3_factory", "s3_signer_ctor", "new_publisher">>,
         signer |-> IF signerOK /\ publisherOK THEN "ok" ELSE "unset"]

\* adapters.InitPublisherAndSigner: factory, signer, publisher, in this order.
InitPublisherAndSignerResult(uri, factoryOK, signerOK, publisherOK) ==
    IF IsGCSURI(uri) THEN
        IF ~factoryOK THEN
            [err |-> Err("gcs factory init failed", EmptyString, "NewGCSClientFactory"),
             events |-> <<"gcs_factory">>, signer |-> "unset"]
        ELSE IF ~signerOK THEN
            [err |-> Err("gcs url signer failed", EmptyString, "NewGCSURLSigner"),
             events |-> <<"gcs_factory", "gcs_signer_ctor">>, signer |-> "unset"]
        ELSE IF ~publisherOK THEN
            [err |-> Err("publisher init failed", EmptyString, "NewPublisher"),
             events |-> <<"gcs_factory", "gcs_signer_ctor", "new_publisher">>, signer |-> "unset"]
        ELSE
            [err |-> NilErr,
             events |-> <<"gcs_factory", "gcs_signer_ctor", "new_publisher">>, signer |-> "ok"]
    ELSE IF IsS3URI(uri) THEN
        IF ~factoryOK THEN
            [err |-> Err("s3 factory init failed", uri, "NewS3ClientFactory"),
             events |-> <<"s3_factory">>, signer |-> "unset"]
        ELSE IF ~signerOK THEN
            [err |-> Err("s3 url signer failed", EmptyString, "NewS3URLSigner"),
             events |-> <<"s3_factory", "s3_signer_ctor">>, signer |-> "unset"]
        ELSE IF ~publisherOK THEN
            [err |-> Err("publisher init failed", EmptyString, "NewPublisher"),
             events |-> <<"s3_factory", "s3_signer_ctor", "new_publisher">>, signer |-> "unset"]
        ELSE
            [err |-> NilErr,
             events |-> <<"s3_factory", "s3_signer_ctor", "new_publisher">>, signer |-> "ok"]
    ELSE
        [err |-> Err("unsupported storage uri", uri, "unsupported scheme"),
         events |-> << >>, signer |-> "unset"]

InitPublisherAndSigner ==
    /\ pc = "init"
    /\ variant = "runner_publish_runner"
    /\ \E factoryOK, signerOK, publisherOK \in BOOLEAN :
        LET r == InitPublisherAndSignerResult(storageURI, factoryOK, signerOK, publisherOK)
            go == ReturnOrGo(r.err, AfterInit(variant))
        IN  /\ events' = events \o r.events
            /\ urlSigner' = r.signer
            /\ pc' = go.pc
            /\ result' = go.result
    /\ UNCHANGED <<variant, storageURI, webhookURL, awsRegion, publicURL, signReq, message, logs, notifyErr>>
    /\ UNCHANGED outerVars

\* publisher.NewPublisherAndSigner is a library call: it fails, or hands back a
\* writer with a signer that may be nil.  BuildPublishRunner wraps a failure
\* with the URI.
BuildPublishRunner ==
    /\ pc = "init"
    /\ variant = "runner_part002"
    /\ \E ok \in BOOLEAN, signer \in {"nil", "ok"} :
        LET err == IF ok THEN NilErr
                   ELSE Err("publisher init failed", storageURI, "NewPublisherAndSigner")
            go == ReturnOrGo(err, AfterInit(variant))
        IN  /\ urlSigner' = (IF ok THEN signer ELSE "unset")
            /\ pc' = go.pc
            /\ result' = go.result
    /\ events' = Append(events, "new_publisher_and_signer")
    /\ UNCHANGED <<variant, storageURI, webhookURL, awsRegion, publicURL, signReq, message, logs, notifyErr>>
    /\ UNCHANGED outerVars

\* The same library call made by Run (part_001) and by publishCommand
\* (part_007): the error is returned as it is.
NewPublisherAndSigner ==
    /\ pc = "init"
    /\ variant \in {"runner_part001", "cmd_part007"}
    /\ \E ok \in BOOLEAN, signer \in {"nil", "ok"} :
        LET err == IF ok THEN NilErr
                   ELSE Err("publisher init failed", EmptyString, "NewPublisherAndSigner")
            go == ReturnOrGo(err, AfterInit(variant))
        IN  /\ urlSigner' = (IF ok THEN signer ELSE "unset")
            /\ pc' = go.pc
            /\ result' = go.result
    /\ events' = Append(events, "new_publisher_and_signer")
    /\ UNCHANGED <<variant, storageURI, webhookURL, awsRegion, publicURL, signReq, message, logs, notifyErr>>
    /\ UNCHANGED outerVars

\* publishCommand of cmd/publish.go: only the factory the scheme needs, then
\* publisher.NewPublisher, which refuses a scheme it does not support.
BuildRegistryAndPublisherResult(uri, factoryOK, publisherOK) ==
    IF IsGCSURI(uri) /\ ~factoryOK THEN
        [err |-> Err("gcs factory init failed", EmptyString, "NewGCSClientFactory"),
         events |-> <<"gcs_factory">>]
    ELSE IF ~IsGCSURI(uri) /\ IsS3URI(uri) /\ ~factoryOK THEN
        [err |-> Err("s3 factory init failed", EmptyString, "NewS3ClientFactory"),
         events |-> <<"s3_factory">>]
    ELSE
        LET made == IF IsGCSURI(uri) THEN <<"gcs_factory">>
                    ELSE IF IsS3URI(uri) THEN <<"s3_factory">>
                    ELSE << >>
            supported == IsGCSURI(uri) \/ IsS3URI(uri)
        IN  [err |-> IF supported /\ publisherOK THEN NilErr
                     ELSE Err("publisher init failed", EmptyString, "NewPublisher"),
             events |-> Append(made, "new_publisher")]

BuildRegistryAndPublisher ==
    /\ pc = "init"
    /\ variant \in {"cmd_publish_v1", "cmd_publish_v2"}
    /\ \E factoryOK, publisherOK \in BOOLEAN :
        LET r == BuildRegistryAndPublisherResult(storageURI, factoryOK, publisherOK)
            go == ReturnOrGo(r.err, AfterInit(variant))
        IN  /\ events' = events \o r.events
            /\ pc' = go.pc
            /\ result' = go.result
    /\ UNCHANGED <<variant, storageURI, webhookURL, awsRegion, urlSigner, publicURL,
                   signReq, message, logs, notifyErr>>
    /\ UNCHANGED outerVars

\* ------------------------------------------------------------------------
\* Step 1: the storage write
\* ------------------------------------------------------------------------
publishToStorage(uri, writeOK) ==
    IF writeOK THEN NilErr
    ELSE Wrap("storage write failed", uri, Err("", EmptyString, "writer.Publish"))

\* What a call that takes the context does to it: the context may be
\* cancelled while the call is in progress, and the call then fails.
CtxAfter(ctx, cancel) == IF cancel THEN "cancelled" ELSE ctx

PublishToStorage ==
    /\ pc = "write"
    /\ \E writeOK, cancel \in BOOLEAN :
        LET err == publishToStorage(storageURI, writeOK)
            go == ReturnOrGo(err, AfterWrite(variant))
        IN  /\ cancel => ~writeOK
            /\ events' = Append(events, IF writeOK THEN "write_ok" ELSE "write_fail")
            /\ logs' = (IF writeOK THEN logs \cup {"info: uploaded"} ELSE logs)
            /\ pc' = go.pc
            /\ result' = go.result
            /\ runCtx' = CtxAfter(runCtx, cancel)
    /\ UNCHANGED <<variant, storageURI, webhookURL, awsRegion, urlSigner, publicURL,
                   signReq, message, notifyErr>>
    /\ UNCHANGED beyondRun

\* ------------------------------------------------------------------------
\* Step 2: the public URL
\* ------------------------------------------------------------------------
\* What a signer hands back for a gs:// URI: some https URL, never the URI.
SignedURLOf(uri) == HttpsPrefix \o <<"signed?">> \o TrimPrefix(uri, GsPrefix)

\* os.Getenv("AWS_REGION") with the fallback region.
RegionOrDefault(env) == IF env = EmptyString THEN defaultAWSRegion ELSE env

\* Virtual-hosted style: https://{bucket}.s3.{region}.amazonaws.com/{key}
convertS3URIToPublicURL(s3URI, region) ==
    LET parts == SplitN2(TrimPrefix(s3URI, S3Prefix), "/")
        bucketName == parts[1]
        objectKey == IF Len(parts) > 1 THEN parts[2] ELSE EmptyString
    IN  HttpsPrefix \o bucketName \o DotS3Dot \o region \o AmazonawsCom \o Slash \o objectKey

\* Path style of cmd/publish.go:255: https://s3.{region}.amazonaws.com/{bucket}{/key}
convertS3URIToPublicURLPathStyle(s3URI, region) ==
    LET parts == SplitN2(TrimPrefix(s3URI, S3Prefix), "/")
        bucketName == parts[1]
        objectKey == IF Len(parts) > 1 THEN Slash \o parts[2] ELSE Slash
    IN  HttpsPrefix \o S3Dot \o region \o AmazonawsCom \o Slash \o bucketName \o objectKey

\* Mutant: no passthrough, whatever is not gs:// is converted like s3://.
getPublicURLConvertsOthers(signer, uri, env, signOK) ==
    IF IsGCSURI(uri) THEN
        [url |-> IF signer = "ok" /\ signOK THEN SignedURLOf(uri) ELSE EmptyString,
         err |-> IF signer = "ok" /\ signOK THEN NilErr
                 ELSE Err("signed url failed", EmptyString, "GenerateSignedURL"),
         events |-> IF signer = "ok" THEN <<"sign">> ELSE << >>,
         signReq |-> IF signer = "ok"
                     THEN [method |-> "GET", minutes |-> signedURLExpiration]
                     ELSE NoSignReq]
    ELSE
        [url |-> convertS3URIToPublicURL(uri, RegionOrDefault(env)), err |-> NilErr,
         events |-> << >>, signReq |-> NoSignReq]

\* CorePublisherRunner.getPublicURL: url, error and the external calls made.
getPublicURL(signer, uri, env, signOK) ==
    IF IsGCSURI(uri) THEN
        IF signer # "ok" THEN
            [url |-> EmptyString, err |-> Err("url signer is nil", EmptyString, "nil signer"),
             events |-> << >>, signReq |-> NoSignReq]
        ELSE IF ~signOK THEN
            [url |-> EmptyString,
             err |-> Err("signed url failed", EmptyString, "GenerateSignedURL"),
             events |-> <<"sign">>,
             signReq |-> [method |-> "GET", minutes |-> signedURLExpiration]]
        ELSE
            [url |-> SignedURLOf(uri), err |-> NilErr, events |-> <<"sign">>,
             signReq |-> [method |-> "GET", minutes |-> signedURLExpiration]]
    ELSE IF IsS3URI(uri) THEN
        [url |-> convertS3URIToPublicURL(uri, RegionOrDefault(env)), err |-> NilErr,
         events |-> << >>, signReq |-> NoSignReq]
    ELSE
        [url |-> uri, err |-> NilErr, events |-> << >>, signReq |-> NoSignReq]

\* SlackAdapter.getPublicURL of slack_adapter.go:250, the same code one
\* generation earlier.
SlackAdapterGetPublicURL(signer, uri, env, signOK) ==
    IF IsGCSURI(uri) THEN
        IF signer # "ok" THEN
            [url |-> EmptyString, err |-> Err("url signer is nil", EmptyString, "nil signer"),
             events |-> << >>, signReq |-> NoSignReq]
        ELSE IF ~signOK THEN
            [url |-> EmptyString,
             err |-> Err("signed url failed", EmptyString, "GenerateSignedURL"),
             events |-> <<"sign">>,
             signReq |-> [method |-> "GET", minutes |-> signedURLExpiration]]
        ELSE
            [url |-> SignedURLOf(uri), err |-> NilErr, events |-> <<"sign">>,
             signReq |-> [method |-> "GET", minutes |-> signedURLExpiration]]
    ELSE IF IsS3URI(uri) THEN
        [url |-> convertS3URIToPublicURL(uri, RegionOrDefault(env)), err |-> NilErr,
         events |-> << >>, signReq |-> NoSignReq]
    ELSE
        [url |-> uri, err |-> NilErr, events |-> << >>, signReq |-> NoSignReq]

\* The caller's fallback: a failed resolution is logged and the raw URI used.
PublicURLOrFallback(r, uri) == IF r.err.kind = "nil" THEN r.url ELSE uri

\* Run, step 2 (part_002:54-61).
GetPublicURL ==
    /\ pc = "resolve"
    /\ variant = "runner_part002"
    /\ \E signOK, cancel \in BOOLEAN :
        LET r == getPublicURL(urlSigner, storageURI, awsRegion, signOK)
        IN  /\ cancel => (r.events = <<"sign">> /\ ~signOK)
            /\ events' = events \o <<"resolve">> \o r.events \o <<"resolved">>
            /\ publicURL' = PublicURLOrFallback(r, storageURI)
            /\ signReq' = r.signReq
            /\ logs' = (IF r.err.kind = "nil" THEN logs
                        ELSE logs \cup {"warn: public url failed"})
            /\ runCtx' = CtxAfter(runCtx, cancel)
    /\ pc' = "notify"
    /\ UNCHANGED <<variant, storageURI, webhookURL, awsRegion, urlSigner, message, notifyErr,
                   result>>
    /\ UNCHANGED beyondRun

\* publishCommand of cmd/publish.go:117-143.  The signed URL is assigned with
\* `publicURL, err :=` inside the if block, a new variable: the outer
\* publicURL keeps targetURI.  A failed NewGCSURLSigner is logged and the
\* nil signer is then called, which panics.
ResolveInlineV1(uri, signerOK, signOK) ==
    IF IsGCSURI(uri) THEN
        IF ~signerOK THEN
            [url |-> uri, err |-> Panic("nil urlSigner.GenerateSignedURL"),
             events |-> <<"gcs_signer_ctor">>, signReq |-> NoSignReq,
             logs |-> {"error: url signer failed"}]
        ELSE
            [url |-> uri, err |-> NilErr, events |-> <<"gcs_signer_ctor", "sign">>,
             signReq |-> [method |-> "GET", minutes |-> signedURLExpirationCmd],
             logs |-> IF signOK THEN {"info: signed url"}
                      ELSE {"error: signed url failed", "info: signed url"}]
    ELSE IF IsS3URI(uri) THEN
        [url |-> convertS3URIToPublicURLPathStyle(uri, defaultAWSRegion), err |-> NilErr,
         events |-> << >>, signReq |-> NoSignReq, logs |-> {}]
    ELSE
        [url |-> uri, err |-> NilErr, events |-> << >>, signReq |-> NoSignReq, logs |-> {}]

ResolvePublicURLInline ==
    /\ pc = "resolve"
    /\ variant = "cmd_publish_v1"
    /\ \E signerOK, signOK \in BOOLEAN :
        LET r == ResolveInlineV1(storageURI, signerOK, signOK)
        IN  /\ events' = events \o <<"resolve">> \o r.events
                         \o (IF r.err.kind = "panic" THEN << >> ELSE <<"resolved">>)
            /\ publicURL' = r.url
            /\ signReq' = r.signReq
            /\ logs' = logs \cup r.logs
            /\ pc' = (IF r.err.kind = "panic" THEN "done" ELSE "notify")
            /\ result' = (IF r.err.kind = "panic" THEN r.err ELSE result)
    /\ UNCHANGED <<variant, storageURI, webhookURL, awsRegion, urlSigner, message, notifyErr>>
    /\ UNCHANGED outerVars

\* ------------------------------------------------------------------------
\* Step 3: the notification
\* ------------------------------------------------------------------------
\* Mutant: a failed delivery is attempted a second time.
DeliverRetriesOnFailure(link, text, clientOK, sendOK) ==
    IF ~clientOK THEN
        [err |-> Err("slack client init failed", EmptyString, "GetSlackClient"),
         events |-> <<"slack_client", "slack_client_failed">>, message |-> NoMessage]
    ELSE
        [err |-> IF sendOK THEN NilErr
                 ELSE Err("slack post failed", EmptyString, "SendTextWithHeader"),
         events |-> IF sendOK THEN <<"slack_client", "send">>
                    ELSE <<"slack_client", "send", "send_failed", "send", "send_failed">>,
         message |-> [link |-> link, text |-> text]]

\* factory.GetSlackClient, then one SendTextWithHeader with the link
\* <link|text>: the shared tail of every notifier.  The events record each
\* call and, right after it, its failure.
Deliver(link, text, clientOK, sendOK) ==
    IF ~clientOK THEN
        [err |-> Err("slack client init failed", EmptyString, "GetSlackClient"),
         events |-> <<"slack_client", "slack_client_failed">>, message |-> NoMessage]
    ELSE
        [err |-> IF sendOK THEN NilErr
                 ELSE Err("slack post failed", EmptyString, "SendTextWithHeader"),
         events |-> <<"slack_client", "send">>
                    \o (IF sendOK THEN << >> ELSE <<"send_failed">>),
         message |-> [link |-> link, text |-> text]]

Skipped(url) ==
    [err |-> NilErr, events |-> << >>, message |-> NoMessage, publicURL |-> url,
     signReq |-> NoSignReq, logs |-> {"info: slack skipped"}]

\* Mutant: the empty webhook URL is not checked.
NotifyWithoutSkip(webhook, url, uri, clientOK, sendOK) ==
    LET d == Deliver(url, uri, clientOK, sendOK)
    IN  [err |-> d.err, events |-> d.events, message |-> d.message,
         publicURL |-> url, signReq |-> NoSignReq, logs |-> {}]

\* SlackAdapter.Notify of part_003: the public URL is an argument.
Notify(webhook, url, uri, clientOK, sendOK) ==
    IF webhook = EmptyString THEN Skipped(url)
    ELSE LET d == Deliver(url, uri, clientOK, sendOK)
         IN  [err |-> d.err, events |-> d.events, message |-> d.message,
              publicURL |-> url, signReq |-> NoSignReq, logs |-> {}]

\* SlackAdapter.Notify of slack_adapter.go:215: resolves the URL with the
\* adapter's signer, falls back to the raw URI, then delivers.
NotifyResolving(webhook, signer, uri, env, signOK, clientOK, sendOK) ==
    IF webhook = EmptyString THEN Skipped(EmptyString)
    ELSE LET r == SlackAdapterGetPublicURL(signer, uri, env, signOK)
             url == PublicURLOrFallback(r, uri)
             d == Deliver(url, uri, clientOK, sendOK)
         IN  [err |-> d.err,
              events |-> <<"resolve">> \o r.events \o <<"resolved">> \o d.events,
              message |-> d.message, publicURL |-> url, signReq |-> r.signReq,
              logs |-> IF r.err.kind = "nil" THEN {} ELSE {"warn: public url failed"}]

\* SlackAdapter.Notify of slack_adapter.go:52: the signer is called without
\* a nil check, so a nil signer panics on a gs:// URI.
NotifyInline(webhook, signer, uri, env, signOK, clientOK, sendOK) ==
    IF webhook = EmptyString THEN Skipped(EmptyString)
    ELSE IF IsGCSURI(uri) /\ signer # "ok" THEN
        [err |-> Panic("nil urlSigner.GenerateSignedURL"), events |-> <<"resolve">>,
         message |-> NoMessage, publicURL |-> uri, signReq |-> NoSignReq, logs |-> {}]
    ELSE LET gcs == IsGCSURI(uri)
             url == IF gcs THEN (IF signOK THEN SignedURLOf(uri) ELSE uri)
                    ELSE IF IsS3URI(uri)
                         THEN convertS3URIToPublicURL(uri, RegionOrDefault(env))
                         ELSE uri
             d == Deliver(url, uri, clientOK, sendOK)
         IN  [err |-> d.err,
              events |-> <<"resolve">> \o (IF gcs THEN <<"sign">> ELSE << >>)
                         \o <<"resolved">> \o d.events,
              message |-> d.message, publicURL |-> url,
              signReq |-> IF gcs THEN [method |-> "GET", minutes |-> signedURLExpiration]
                          ELSE NoSignReq,
              logs |-> IF gcs /\ ~signOK THEN {"error: signed url failed"} ELSE {}]

\* sendSlackNotification of cmd/publish.go:159: link and text are both the
\* public URL; the HTTP client is made on the spot.
sendSlackNotificationV1(webhook, url, clientOK, sendOK) ==
    IF webhook = EmptyString THEN Skipped(url)
    ELSE LET d == Deliver(url, url, clientOK, sendOK)
         IN  [err |-> d.err, events |-> d.events, message |-> d.message,
              publicURL |-> url, signReq |-> NoSignReq, logs |-> {}]

\* sendSlackNotification of cmd/publish.go:401: signer from the registry,
\* fixed region, HTTP client from the context.
sendSlackNotificationV2(webhook, uri, signerOK, signOK, httpOK, clientOK, sendOK) ==
    IF webhook = EmptyString THEN Skipped(EmptyString)
    ELSE LET gcs == IsGCSURI(uri)
             url == IF gcs THEN (IF signerOK /\ signOK THEN SignedURLOf(uri) ELSE uri)
                    ELSE IF IsS3URI(uri)
                         THEN convertS3URIToPublicURL(uri, defaultAWSRegion)
                         ELSE uri
             called == IF gcs THEN (IF signerOK THEN <<"gcs_signer_ctor", "sign">>
                                    ELSE <<"gcs_signer_ctor">>)
                       ELSE << >>
             req == IF gcs /\ signerOK
                    THEN [method |-> "GET", minutes |-> signedURLExpirationCmd]
                    ELSE NoSignReq
             lg == IF gcs /\ ~signerOK THEN {"error: url signer failed"}
                   ELSE IF gcs /\ ~signOK THEN {"error: signed url failed"}
                   ELSE {}
             d == Deliver(url, uri, clientOK, sendOK)
         IN  IF ~httpOK THEN
                 [err |-> Err("http client failed", EmptyString, "GetHTTPClient"),
                  events |-> <<"resolve">> \o called \o <<"resolved", "http_client">>,
                  message |-> NoMessage, publicURL |-> url, signReq |-> req,
                  logs |-> lg \cup {"error: http client failed"}]
             ELSE
                 [err |-> d.err,
                  events |-> <<"resolve">> \o called \o <<"resolved", "http_client">>
                             \o d.events,
                  message |-> d.message, publicURL |-> url, signReq |-> req, logs |-> lg]

\* Mutant: the notifier's error is returned to the caller.
RunAfterNotifyReturnsErr(err) == err

\* What the caller returns once the notifier returned err: the error is
\* logged and dropped (a panic is not an error value and unwinds the run).
RunAfterNotify(err) == IF err.kind = "panic" THEN err ELSE NilErr

\* publishCommand of part_007:80-83 takes the HTTP client out of the context
\* after the write and returns the failure.
getHTTPClient(httpOK) ==
    IF httpOK THEN NilErr
    ELSE Wrap("http client failed", EmptyString, Err("", EmptyString, "GetHTTPClient"))

GetHTTPClient ==
    /\ pc = "httpclient"
    /\ variant = "cmd_part007"
    /\ \E httpOK \in BOOLEAN :
        LET go == ReturnOrGo(getHTTPClient(httpOK), "notify")
        IN  /\ pc' = go.pc
            /\ result' = go.result
    /\ events' = Append(events, "http_client")
    /\ UNCHANGED <<variant, storageURI, webhookURL, awsRegion, urlSigner, publicURL,
                   signReq, message, logs, notifyErr>>
    /\ UNCHANGED outerVars

\* The notifier each generation calls.
NotifierResult(v, signOK, clientOK, sendOK) ==
    CASE v = "runner_part002" -> Notify(webhookURL, publicURL, storageURI, clientOK, sendOK)
      [] v = "cmd_part007" ->
            NotifyInline(webhookURL, urlSigner, storageURI, awsRegion, signOK, clientOK, sendOK)
      [] OTHER ->
            NotifyResolving(webhookURL, urlSigner, storageURI, awsRegion, signOK, clientOK,
                            sendOK)

ApplyNotification(n) ==
    /\ events' = events \o n.events
    /\ message' = n.message
    /\ publicURL' = n.publicURL
    /\ signReq' = (IF n.signReq = NoSignReq THEN signReq ELSE n.signReq)
    /\ logs' = logs \cup n.logs
                    \cup (IF n.err.kind = "error" THEN {"error: slack notification failed"}
                          ELSE {})
    /\ notifyErr' = n.err
    /\ pc' = "done"
    /\ result' = RunAfterNotify(n.err)

\* notifyToSlack of the runners, and the Notify call of part_007:84-89.
NotifyToSlack ==
    /\ pc = "notify"
    /\ variant \in RunnerVariants \cup {"cmd_part007"}
    /\ \E signOK, clientOK, sendOK \in BOOLEAN :
        /\ runCtx = "cancelled" => ~sendOK
        /\ ApplyNotification(NotifierResult(variant, signOK, clientOK, sendOK))
    /\ UNCHANGED <<variant, storageURI, webhookURL, awsRegion, urlSigner>>
    /\ UNCHANGED outerVars

\* The sendSlackNotification call of cmd/publish.go:146 and :388.
SendSlackNotification ==
    /\ pc = "notify"
    /\ variant \in {"cmd_publish_v1", "cmd_publish_v2"}
    /\ \E signerOK, signOK, httpOK, clientOK, sendOK \in BOOLEAN :
        ApplyNotification(
            IF variant = "cmd_publish_v1"
            THEN sendSlackNotificationV1(webhookURL, publicURL, clientOK, sendOK)
            ELSE sendSlackNotificationV2(webhookURL, storageURI, signerOK, signOK, httpOK,
                                         clientOK, sendOK))
    /\ UNCHANGED <<variant, storageURI, webhookURL, awsRegion, urlSigner>>
    /\ UNCHANGED outerVars

Next ==
    \/ InitPublisherAndSigner
    \/ BuildPublishRunner
    \/ NewPublisherAndSigner
    \/ BuildRegistryAndPublisher
    \/ PublishToStorage
    \/ GetPublicURL
    \/ ResolvePublicURLInline
    \/ GetHTTPClient
    \/ NotifyToSlack
    \/ SendSlackNotification

Spec == Init /\ [][Next]_vars

\* ------------------------------------------------------------------------
\* The review pipeline and the entry points that run it before publishing
\* ------------------------------------------------------------------------
\* The entry points, each with the publish flow it continues with.
PublishCommands ==
    {"publishCommand_part008", "publishCommand_part007", "publishCommand_v1",
     "publishCommand_v2"}

GenericCommands == {"genericCommand_v1", "genericCommand_v2"}

Commands == {"ReviewAndPublish"} \cup PublishCommands \cup GenericCommands

VariantOf(cmd) ==
    CASE cmd = "ReviewAndPublish" -> "runner_part002"
      [] cmd = "publishCommand_part007" -> "cmd_part007"
      [] cmd = "publishCommand_v1" -> "cmd_publish_v1"
      [] cmd = "publishCommand_v2" -> "cmd_publish_v2"
      [] OTHER -> "none"

\* What builder.BuildReviewRunner and reviewRunner.Run can produce.
ReviewOutcomes == {"result", "empty", "build_error", "run_error"}

ReviewMarkdown == <<"o", "k">>

ErrSkipReview == Err("diff not found, review skipped", EmptyString, "ErrSkipReview")

\* errors.Is(err, ErrSkipReview): Wrap keeps the cause, as %w does.
IsErrSkipReview(err) == err.kind = "error" /\ err.cause = "ErrSkipReview"

\* Mutant: an empty result is handed back as a result.
ReviewWithoutSkip(o) ==
    CASE o = "build_error" ->
            [text |-> EmptyString,
             err |-> Wrap("review runner build failed", EmptyString,
                          Err("", EmptyString, "BuildReviewRunner"))]
      [] o = "run_error" ->
            [text |-> EmptyString, err |-> Err("", EmptyString, "reviewRunner.Run")]
      [] o = "empty" -> [text |-> EmptyString, err |-> NilErr]
      [] OTHER -> [text |-> ReviewMarkdown, err |-> NilErr]

\* pipeline.Review: the empty result becomes ErrSkipReview.
Review(o) ==
    CASE o = "build_error" ->
            [text |-> EmptyString,
             err |-> Wrap("review runner build failed", EmptyString,
                          Err("", EmptyString, "BuildReviewRunner"))]
      [] o = "run_error" ->
            [text |-> EmptyString, err |-> Err("", EmptyString, "reviewRunner.Run")]
      [] o = "empty" -> [text |-> EmptyString, err |-> ErrSkipReview]
      [] OTHER -> [text |-> ReviewMarkdown, err |-> NilErr]

\* executeReviewPipeline of cmd/root.go: the empty result is ("", nil).
executeReviewPipeline(o) ==
    CASE o = "build_error" ->
            [text |-> EmptyString,
             err |-> Wrap("review runner build failed", EmptyString,
                          Err("", EmptyString, "BuildReviewRunner"))]
      [] o = "run_error" ->
            [text |-> EmptyString, err |-> Err("", EmptyString, "reviewRunner.Run")]
      [] o = "empty" -> [text |-> EmptyString, err |-> NilErr]
      [] OTHER -> [text |-> ReviewMarkdown, err |-> NilErr]

\* pipeline.ExecuteReviewPipeline, the exported predecessor of Review, is not
\* in the source.  Each caller is given the contract its own code is written
\* against: genericCommand of generic.go:91 tests errors.Is(err,
\* ErrSkipReview); the callers that test reviewResult == "" get ("", nil).
ExecuteReviewPipeline(cmd, o) ==
    IF cmd = "genericCommand_v2" THEN Review(o) ELSE executeReviewPipeline(o)

\* The review pipeline each entry point calls.
ReviewPipelineOf(cmd, o) ==
    CASE cmd = "ReviewAndPublish" -> Review(o)
      [] cmd \in {"publishCommand_v1", "publishCommand_v2"} -> executeReviewPipeline(o)
      [] OTHER -> ExecuteReviewPipeline(cmd, o)

\* Mutant: a failed review is logged and the publish pipeline runs anyway.
ReviewAndPublishIgnoringErr(r) ==
    IF IsErrSkipReview(r.err) THEN
        [pc |-> "returned", err |-> NilErr, logs |-> {"info: publish skipped"}]
    ELSE [pc |-> "init", err |-> Running, logs |-> {}]

\* ReviewAndPublish up to its call of Publish.
ReviewAndPublishAfterReview(r) ==
    IF IsErrSkipReview(r.err) THEN
        [pc |-> "returned", err |-> NilErr, logs |-> {"info: publish skipped"}]
    ELSE IF r.err.kind # "nil" THEN
        [pc |-> "returned", err |-> Wrap("review pipeline failed", EmptyString, r.err),
         logs |-> {}]
    ELSE [pc |-> "init", err |-> Running, logs |-> {}]

ReviewAndPublish ==
    /\ pc = "review"
    /\ command = "ReviewAndPublish"
    /\ \E o \in ReviewOutcomes :
        LET a == ReviewAndPublishAfterReview(Review(o))
        IN  /\ review' = o
            /\ pc' = a.pc
            /\ pipelineErr' = a.err
            /\ logs' = logs \cup a.logs
    /\ UNCHANGED <<variant, storageURI, webhookURL, awsRegion, events, urlSigner, publicURL,
                   signReq, message, notifyErr, result, command, stdout>>
    /\ UNCHANGED <<gitVars, restVars>>

\* Publish wraps the error of BuildPublishRunner or of Run, and
\* ReviewAndPublish wraps it once more.
PublishReturn(err) ==
    IF err.kind # "error" THEN err
    ELSE Wrap("publish pipeline failed", err.uri,
              Wrap(IF err.cause = "NewPublisherAndSigner" THEN "PublishRunner build failed"
                   ELSE "publish run failed", err.uri, err))

ReturnFromPublish ==
    /\ pc = "done"
    /\ command = "ReviewAndPublish"
    /\ pipelineErr' = PublishReturn(result)
    /\ pc' = "returned"
    /\ UNCHANGED <<variant, storageURI, webhookURL, awsRegion, events, urlSigner, publicURL,
                   signReq, message, notifyErr, logs, result, command, review, stdout>>
    /\ UNCHANGED <<gitVars, restVars>>

\* publishCommand up to the construction of the publisher: every generation
\* returns the review error as it is and stops on an empty result.
publishCommandAfterReview(cmd, r) ==
    IF r.err.kind # "nil" THEN [pc |-> "done", result |-> r.err, logs |-> {}]
    ELSE IF r.text = EmptyString THEN
        [pc |-> "done", result |-> NilErr, logs |-> {"warn: storage skipped"}]
    ELSE [pc |-> IF cmd = "publishCommand_part008" THEN "httpclient_pre" ELSE "init",
          result |-> Running, logs |-> {}]

PublishCommand ==
    /\ pc = "review"
    /\ command \in PublishCommands
    /\ \E o \in ReviewOutcomes :
        LET a == publishCommandAfterReview(command, ReviewPipelineOf(command, o))
        IN  /\ review' = o
            /\ pc' = a.pc
            /\ result' = a.result
            /\ logs' = logs \cup a.logs
    /\ UNCHANGED <<variant, storageURI, webhookURL, awsRegion, events, urlSigner, publicURL,
                   signReq, message, notifyErr, command, stdout, pipelineErr>>
    /\ UNCHANGED <<gitVars, restVars>>

\* printReviewResult: a header line, the result, a footer line.
printReviewResult(text) == <<<<"-", "-", "-">>, text, <<"-", "-", "-">>>>

\* genericCommand of generic.go:31.
genericCommandV1(r) ==
    IF r.err.kind # "nil" THEN [result |-> r.err, print |-> << >>]
    ELSE IF r.text # EmptyString THEN [result |-> NilErr, print |-> printReviewResult(r.text)]
    ELSE [result |-> NilErr, print |-> << >>]

\* genericCommand of generic.go:91.
genericCommandV2(r) ==
    IF IsErrSkipReview(r.err) THEN [result |-> NilErr, print |-> << >>]
    ELSE IF r.err.kind # "nil" THEN [result |-> r.err, print |-> << >>]
    ELSE [result |-> NilErr, print |-> printReviewResult(r.text)]

GenericCommand ==
    /\ pc = "review"
    /\ command \in GenericCommands
    /\ \E o \in ReviewOutcomes :
        LET r == ReviewPipelineOf(command, o)
            a == IF command = "genericCommand_v1" THEN genericCommandV1(r)
                 ELSE genericCommandV2(r)
        IN  /\ review' = o
            /\ result' = a.result
            /\ stdout' = stdout \o a.print
            /\ logs' = logs \cup (IF a.result = NilErr /\ a.print = << >>
                                   THEN {"info: output skipped"} ELSE {})
    /\ pc' = "done"
    /\ UNCHANGED <<variant, storageURI, webhookURL, awsRegion, events, urlSigner, publicURL,
                   signReq, message, notifyErr, command, pipelineErr>>
    /\ UNCHANGED <<gitVars, restVars>>

\* publishCommand of part_008:59-62: the HTTP client, before any publishing.
GetHTTPClientBeforePublish ==
    /\ pc = "httpclient_pre"
    /\ command = "publishCommand_part008"
    /\ \E httpOK \in BOOLEAN :
        LET go == ReturnOrGo(getHTTPClient(httpOK), "publish_pipeline")
        IN  /\ pc' = go.pc
            /\ result' = go.result
    /\ events' = Append(events, "http_client")
    /\ UNCHANGED <<variant, storageURI, webhookURL, awsRegion, urlSigner, publicURL,
                   signReq, message, logs, notifyErr>>
    /\ UNCHANGED outerVars

\* pipeline.ExecutePublishPipeline is not in the source: it runs, and
\* succeeds or fails; publishCommand wraps its error.
ExecutePublishPipeline ==
    /\ pc = "publish_pipeline"
    /\ command = "publishCommand_part008"
    /\ \E ok \in BOOLEAN :
        result' = (IF ok THEN NilErr
                   ELSE Wrap("publish pipeline failed", EmptyString,
                             Err("", EmptyString, "ExecutePublishPipeline")))
    /\ events' = Append(events, "publish_pipeline")
    /\ pc' = "done"
    /\ UNCHANGED <<variant, storageURI, webhookURL, awsRegion, urlSigner, publicURL,
                   signReq, message, logs, notifyErr>>
    /\ UNCHANGED outerVars

InitPipeline ==
    /\ command \in Commands
    /\ variant = VariantOf(command)
    /\ storageURI \in (IF command \in GenericCommands THEN {EmptyString} ELSE StorageURIs)
    /\ webhookURL \in (IF command \in GenericCommands THEN {EmptyString} ELSE WebhookURLs)
    /\ awsRegion \in (IF command \in GenericCommands THEN {EmptyString} ELSE AwsRegionEnv)
    /\ pc = "review"
    /\ events = << >>
    /\ urlSigner = "unset"
    /\ publicURL = EmptyString
    /\ signReq = NoSignReq
    /\ message = NoMessage
    /\ logs = {}
    /\ notifyErr = Running
    /\ result = Running
    /\ review = "pending"
    /\ stdout = << >>
    /\ pipelineErr = Running
    /\ GitIdle
    /\ RestIdle

NextPipeline ==
    \/ ReviewAndPublish
    \/ ReturnFromPublish
    \/ PublishCommand
    \/ GenericCommand
    \/ GetHTTPClientBeforePublish
    \/ ExecutePublishPipeline
    \/ BuildPublishRunner
    \/ NewPublisherAndSigner
    \/ BuildRegistryAndPublisher
    \/ PublishToStorage
    \/ GetPublicURL
    \/ ResolvePublicURLInline
    \/ GetHTTPClient
    \/ NotifyToSlack
    \/ SendSlackNotification

PipelineSpec == InitPipeline /\ [][NextPipeline]_vars

\* ------------------------------------------------------------------------
\* The git adapter (LocalGitAdapter): SSH environment
\* ------------------------------------------------------------------------
Quote == "'"
Backslash == "\\"
Space == " "

RECURSIVE ReplaceAll(_, _, _)
\* strings.ReplaceAll for a one-character pattern.
ReplaceAll(str, old, new) ==
    IF str = << >> THEN << >>
    ELSE (IF Head(str) = old THEN new ELSE <<Head(str)>>) \o ReplaceAll(Tail(str), old, new)

\* Mutant: the path is wrapped in single quotes, its own quotes left alone.
quotePathForShellNoEscape(path) == <<Quote>> \o path \o <<Quote>>

\* quotePathForShell: ' becomes '\'' and the whole is single-quoted.
quotePathForShell(path) ==
    <<Quote>> \o ReplaceAll(path, Quote, <<Quote, Backslash, Quote, Quote>>) \o <<Quote>>

RECURSIVE JoinWith(_, _)
\* strings.Join
JoinWith(parts, sep) ==
    IF parts = << >> THEN << >>
    ELSE IF Len(parts) = 1 THEN parts[1]
    ELSE parts[1] \o sep \o JoinWith(Tail(parts), sep)

SshWord == <<"s", "s", "h">>
DashI == <<"-", "i">>
DashF == <<"-", "F">>
DevNull == <<"/", "d", "e", "v", "/", "n", "u", "l", "l">>
DashO == <<"-", "o">>
StrictHostKeyCheckingNo ==
    <<"S", "t", "r", "i", "c", "t", "H", "o", "s", "t", "K", "e", "y", "C", "h", "e", "c",
      "k", "i", "n", "g", "=", "n", "o">>

\* getEnvWithSSH: the GIT_SSH_COMMAND entry added to the environment, if any.
getEnvWithSSH(key, insecure) ==
    IF key = EmptyString THEN NoSshCmd
    ELSE [set |-> TRUE,
          value |-> JoinWith(<<SshWord, DashI, quotePathForShell(key), DashF, DevNull>>
                             \o (IF insecure THEN <<DashO, StrictHostKeyCheckingNo>>
                                 ELSE << >>),
                             <<Space>>)]

\* ------------------------------------------------------------------------
\* The git adapter: paths and the filesystem
\* ------------------------------------------------------------------------
PathSeparator == "/"
DotGit == <<".", "g", "i", "t">>
CurDir == <<".">>

LastIndex(str, c) ==
    IF \E i \in 1..Len(str) : str[i] = c
    THEN CHOOSE i \in 1..Len(str) : str[i] = c /\ \A j \in (i + 1)..Len(str) : str[j] # c
    ELSE 0

RECURSIVE Elements(_)
\* The elements of a path between separators, empty ones and "." dropped.
Elements(path) ==
    IF path = << >> THEN << >>
    ELSE LET i == Index(path, PathSeparator)
             first == IF i = 0 THEN path ELSE SubSeq(path, 1, i - 1)
             rest == IF i = 0 THEN << >> ELSE SubSeq(path, i + 1, Len(path))
         IN  (IF first = << >> \/ first = CurDir THEN << >> ELSE <<first>>) \o Elements(rest)

\* filepath.Clean, for paths without "..".
Clean(path) ==
    LET joined == JoinWith(Elements(path), <<PathSeparator>>)
    IN  IF HasPrefix(path, <<PathSeparator>>) THEN <<PathSeparator>> \o joined
        ELSE IF joined = << >> THEN CurDir
        ELSE joined

\* filepath.Dir: everything up to the last separator, cleaned.
Dir(path) == Clean(SubSeq(path, 1, LastIndex(path, PathSeparator)))

\* filepath.Base: the last element, trailing separators dropped first.
Base(path) ==
    IF path = << >> THEN CurDir
    ELSE LET els == Elements(path)
         IN  IF els = << >>
             THEN (IF HasPrefix(path, <<PathSeparator>>) THEN <<PathSeparator>> ELSE CurDir)
             ELSE els[Len(els)]

\* filepath.Join
Join(a, b) == Clean(a \o <<PathSeparator>> \o b)

\* A filesystem is a set of nodes, each the list of path elements from the
\* working directory, a kind and a mode; the working directory itself is a
\* directory that exists.
Node(path, kind, mode) == [path |-> path, kind |-> kind, mode |-> mode]

Exists(f, p) == p = << >> \/ \E n \in f : n.path = p

IsPrefixOf(a, b) == Len(a) <= Len(b) /\ SubSeq(b, 1, Len(a)) = a

KindOf(f, p) == IF p = << >> THEN "dir" ELSE (CHOOSE n \in f : n.path = p).kind

ModeOf(f, p) == IF p = << >> THEN "0700" ELSE (CHOOSE n \in f : n.path = p).mode

\* The proper prefixes of p that cannot be walked through.
Blocked(f, p) ==
    {k \in 0..(Len(p) - 1) :
        \/ ~Exists(f, SubSeq(p, 1, k))
        \/ KindOf(f, SubSeq(p, 1, k)) # "dir"
        \/ ModeOf(f, SubSeq(p, 1, k)) = "0000"}

\* os.Stat
Stat(f, path) ==
    LET p == Elements(path)
        b == Blocked(f, p)
    IN  IF path = << >> THEN [err |-> "ENOENT", isDir |-> FALSE]
        ELSE IF b # {} THEN
            LET k == CHOOSE x \in b : \A y \in b : x <= y
                q == SubSeq(p, 1, k)
            IN  [err |-> IF ~Exists(f, q) THEN "ENOENT"
                         ELSE IF KindOf(f, q) # "dir" THEN "ENOTDIR"
                         ELSE "EACCES",
                 isDir |-> FALSE]
        ELSE IF ~Exists(f, p) THEN [err |-> "ENOENT", isDir |-> FALSE]
        ELSE IF KindOf(f, p) # "dir" /\ path[Len(path)] = PathSeparator
        THEN [err |-> "ENOTDIR", isDir |-> FALSE]
        ELSE [err |-> "nil", isDir |-> KindOf(f, p) = "dir"]

\* What is at the local path: nothing, a directory with a .git entry, or
\* something else.
RepositoryState(f, lp) ==
    LET p == Elements(lp)
    IN  IF ~Exists(f, p) THEN "Absent"
        ELSE IF KindOf(f, p) = "dir" /\ Exists(f, Append(p, DotGit)) THEN "PresentGitRepo"
        ELSE "PresentNotAGitRepo"

\* Mutant: every stat error is taken for a missing path.
IsNotExistAnyError(st) == st.err # "nil"

\* os.IsNotExist
IsNotExist(st) == st.err = "ENOENT"

\* os.MkdirAll(path, 0755): the missing directories down to path, or an error
\* and nothing made.
MkdirAll(f, path, mkdirOK) ==
    LET p == Elements(path)
        st == Stat(f, path)
    IN  IF st.err = "nil" /\ st.isDir THEN [err |-> "nil", fs |-> f]
        ELSE IF ~mkdirOK \/ ~IsNotExist(st)
                \/ \E k \in 1..Len(p) : Exists(f, SubSeq(p, 1, k))
                                        /\ KindOf(f, SubSeq(p, 1, k)) # "dir"
        THEN [err |-> "mkdir", fs |-> f]
        ELSE [err |-> "nil",
              fs |-> f \cup {Node(SubSeq(p, 1, k), "dir", "0755") :
                                k \in {j \in 1..Len(p) : ~Exists(f, SubSeq(p, 1, j))}}]

\* ------------------------------------------------------------------------
\* The git adapter: CloneOrUpdate
\* ------------------------------------------------------------------------
RepoURL == <<"u">>

\* Mutant: the clone subprocess inherits the environment as it is.
GitCallCloneInheritsEnv(dir, cmd, opts, operands, key, insecure) ==
    [dir |-> dir, cmd |-> cmd, opts |-> opts, operands |-> operands,
     env |-> IF cmd = "clone" THEN NoSshCmd ELSE getEnvWithSSH(key, insecure)]

\* One git subprocess: its working directory, the command, its options and
\* operands, and the GIT_SSH_COMMAND of its environment.
GitCall(dir, cmd, opts, operands, key, insecure) ==
    [dir |-> dir, cmd |-> cmd, opts |-> opts, operands |-> operands,
     env |-> getEnvWithSSH(key, insecure)]

\* How the operating system and git treat a launched command.
ExecOutcomes == {"ok", "exit", "launch"}

\* `git clone <url> <target>` run in dir: git makes the target and its .git,
\* or exits non-zero and leaves nothing; a command whose directory is missing
\* or whose binary cannot be started is never run.
GitClone(f, dir, target, exec) ==
    LET d == Stat(f, dir)
        t == Elements(dir) \o Elements(target)
    IN  IF exec = "launch" \/ d.err # "nil" \/ ~d.isDir
        THEN [ok |-> FALSE, cause |-> "launch", fs |-> f]
        ELSE IF exec = "exit" \/ Exists(f, t)
        THEN [ok |-> FALSE, cause |-> "exit status", fs |-> f]
        ELSE [ok |-> TRUE, cause |-> "",
              fs |-> f \cup {Node(t, "dir", "git"), Node(Append(t, DotGit), "dir", "git")}]

\* The branch the remote's HEAD names.
DefaultBranch == <<"m">>

\* What a clone of the remote holds: a remote-tracking ref for every branch
\* and the default branch checked out.
Cloned(org) ==
    [tracking |-> org,
     heads |-> [b \in {DefaultBranch} \cap DOMAIN org |-> org[b]],
     branch |-> IF DefaultBranch \in DOMAIN org THEN DefaultBranch ELSE EmptyString]

GitFail(msg, cause, f) == [err |-> GitErr(msg, cause, EmptyString), fs |-> f, calls |-> << >>]

\* Mutant: a directory without .git is taken for an empty clone target.
CloneOrUpdateClonesIntoDir(f, lp, key, insecure, mkdirOK, exec) ==
    LET info == Stat(f, lp)
        c == GitClone(f, Dir(lp), Base(lp), "ok")
    IN  IF info.err = "nil" /\ ~info.isDir THEN GitFail("not a directory", "not a directory", f)
        ELSE IF info.err = "nil" /\ Stat(f, Join(lp, DotGit)).err = "nil"
        THEN [err |-> GitNil, fs |-> f, calls |-> << >>]
        ELSE [err |-> GitNil,
              fs |-> f \cup {Node(Append(Elements(lp), DotGit), "dir", "git")},
              calls |-> <<GitCall(Elements(Dir(lp)), "clone", << >>, <<RepoURL, Base(lp)>>,
                                  key, insecure)>>]

\* CloneOrUpdate(ctx, repositoryURL)
CloneOrUpdate(f, lp, key, insecure, mkdirOK, exec) ==
    LET info == Stat(f, lp)
    IN  IF info.err = "nil" THEN
            IF ~info.isDir THEN GitFail("local path is not a directory", "not a directory", f)
            ELSE LET gitDir == Stat(f, Join(lp, DotGit))
                 IN  IF IsNotExist(gitDir)
                     THEN GitFail("local path exists but is not a git repository",
                                  "not a repository", f)
                     ELSE IF gitDir.err # "nil"
                     THEN GitFail(".git check failed", gitDir.err, f)
                     ELSE [err |-> GitNil, fs |-> f, calls |-> << >>]
        ELSE IF IsNotExist(info) THEN
            LET parentDir == Dir(lp)
                repoDir == Base(lp)
                mk == IF IsNotExist(Stat(f, parentDir)) THEN MkdirAll(f, parentDir, mkdirOK)
                      ELSE [err |-> "nil", fs |-> f]
                c == GitClone(mk.fs, parentDir, repoDir, exec)
            IN  IF mk.err # "nil"
                THEN GitFail("parent directory creation failed", mk.err, mk.fs)
                ELSE [err |-> IF c.ok THEN GitNil
                              ELSE GitErr("clone failed", c.cause, <<"f", "a", "t", "a", "l">>),
                      fs |-> c.fs,
                      calls |-> <<GitCall(Elements(parentDir), "clone", << >>,
                                          <<RepoURL, repoDir>>, key, insecure)>>]
        ELSE GitFail("local path check failed", info.err, f)

CloneOrUpdateCall ==
    /\ pc = "git"
    /\ \E mkdirOK \in BOOLEAN, exec \in ExecOutcomes :
        \E r \in {CloneOrUpdate(fs, localPath, sshKeyPath, insecureSkip, mkdirOK, exec)} :
            /\ fs' = r.fs
            /\ gitCalls' = r.calls
            /\ gitRet' = [out |-> EmptyString, exists |-> FALSE, err |-> r.err]
            /\ gitOp' = [name |-> "CloneOrUpdate", base |-> EmptyString,
                         feature |-> EmptyString, pre |-> fs,
                         fault |-> IF r.calls = << >> \/ exec = "ok" THEN NoFault
                                   ELSE [at |-> 1, how |-> exec],
                         printed |-> EmptyString]
            /\ refs' = (IF r.calls # << >> /\ r.err = GitNil THEN DOMAIN origin ELSE refs)
            /\ work' = (IF r.calls # << >> /\ r.err = GitNil THEN Cloned(origin) ELSE work)
    /\ UNCHANGED <<localPath, sshKeyPath, insecureSkip, prevDiff, sshCmd>>
    /\ UNCHANGED <<variant, storageURI, webhookURL, awsRegion, pc, events, urlSigner,
                   publicURL, signReq, message, logs, notifyErr, result, callerVars,
                   repoVars, runCtx, origin, baseBranch, prevCleanup, procs>>

\* The local paths tried: relative paths of up to MaxPathLen characters.
PathChars == {"p", "w", PathSeparator}

LocalPaths ==
    {lp \in SeqsUpTo(PathChars, MaxPathLen) : lp # << >> /\ lp[1] # PathSeparator}

\* The first k elements of L exist, the k-th as `kind`.
Chain(L, k, kind) ==
    {Node(SubSeq(L, 1, j), IF j = k THEN kind ELSE "dir", "0700") : j \in 1..k}

\* With or without an unrelated file next to the local path.
WithSibling(L, f) ==
    {f, f \cup {Node(Append(SubSeq(L, 1, Len(L) - 1), <<"s">>), "file", "0600")}}

\* The filesystems a run can find: the local path absent under existing or
\* missing ancestors (one of which may be a file), a file, or a directory
\* with or without .git, with or without content, searchable or not.
FsFamily(lp) ==
    LET L == Elements(lp)
        n == Len(L)
        absent == {Chain(L, k, kind) : k \in 0..(n - 1), kind \in {"dir", "file"}}
                  \cup UNION {WithSibling(L, Chain(L, n - 1, "dir"))}
        file == WithSibling(L, Chain(L, n - 1, "dir") \cup {Node(L, "file", "0600")})
        dirs == UNION {WithSibling(L, Chain(L, n - 1, "dir") \cup {Node(L, "dir", mode)}
                                      \cup git \cup content) :
                        mode \in {"0700", "0000"},
                        git \in {{}, {Node(Append(L, DotGit), "dir", "0700")}},
                        content \in {{}, {Node(Append(L, <<"f">>), "file", "0600")}}}
    IN  absent \cup file \cup dirs

SshKeyPaths == {EmptyString, <<"k">>}

\* The publish flow is not running.
PublishIdle ==
    /\ variant = "none"
    /\ storageURI = EmptyString
    /\ webhookURL = EmptyString
    /\ awsRegion = EmptyString
    /\ pc = "git"
    /\ events = << >>
    /\ urlSigner = "unset"
    /\ publicURL = EmptyString
    /\ signReq = NoSignReq
    /\ message = NoMessage
    /\ logs = {}
    /\ notifyErr = Running
    /\ result = Running
    /\ command = "none"
    /\ review = "pending"
    /\ stdout = << >>
    /\ pipelineErr = Running

InitClone ==
    /\ PublishIdle
    /\ localPath \in LocalPaths
    /\ sshKeyPath \in SshKeyPaths
    /\ insecureSkip \in BOOLEAN
    /\ fs \in FsFamily(localPath)
    /\ refs = {}
    /\ gitCalls = << >>
    /\ gitOp = NoGitOp
    /\ gitRet = NoGitRet
    /\ prevDiff = NoDiff
    /\ sshCmd = NoSshCmd
    /\ RestIdle

NextClone == CloneOrUpdateCall

CloneSpec == InitClone /\ [][NextClone]_vars

\* ------------------------------------------------------------------------
\* The git adapter: commands run in the local repository
\* ------------------------------------------------------------------------
OriginSlash == <<"o", "r", "i", "g", "i", "n", "/">>
ThreeDots == <<".", ".", ".">>
Newline == "\n"
Whitespace == {Space, Newline, "\t"}

RECURSIVE TrimLeft(_)
TrimLeft(str) ==
    IF str # << >> /\ Head(str) \in Whitespace THEN TrimLeft(Tail(str)) ELSE str

RECURSIVE TrimRight(_)
TrimRight(str) ==
    IF str # << >> /\ str[Len(str)] \in Whitespace
    THEN TrimRight(SubSeq(str, 1, Len(str) - 1)) ELSE str

\* strings.TrimSpace
TrimSpace(str) == TrimRight(TrimLeft(str))

\* How a launched git command can go: "ok" it runs and does what the
\* repository allows, "exit" it runs and exits non-zero for a reason outside
\* the model, "launch" the binary cannot be started, "cancelled" the context
\* is done before the start.
GitExecOutcomes == ExecOutcomes \cup {"cancelled"}

\* runGitCommand: an *exec.ExitError gives the trimmed output inside the
\* error, any other error is wrapped, success gives the trimmed output.
runGitCommand(f, lp, exec, exitZero, raw) ==
    LET d == Stat(f, lp)
    IN  IF exec = "cancelled"
        THEN [out |-> EmptyString,
              err |-> GitErr("unexpected git error", "context canceled", EmptyString)]
        ELSE IF exec = "launch" \/ d.err # "nil" \/ ~d.isDir
        THEN [out |-> EmptyString,
              err |-> GitErr("unexpected git error", "launch", EmptyString)]
        ELSE IF exec = "exit" \/ ~exitZero
        THEN [out |-> EmptyString,
              err |-> GitErr("git command failed", "exit status", TrimSpace(raw))]
        ELSE [out |-> TrimSpace(raw), err |-> GitNil]

\* git: a ref origin/<b> resolves in a repository that has fetched branch b.
Resolves(f, lp, rs, ref) ==
    /\ RepositoryState(f, lp) = "PresentGitRepo"
    /\ HasPrefix(ref, OriginSlash)
    /\ TrimPrefix(ref, OriginSlash) \in rs

\* git: the two sides of a three-dot range, or none.
RangeSides(range) ==
    LET at == {i \in 1..(Len(range) - 2) : SubSeq(range, i, i + 2) = ThreeDots}
    IN  IF at = {} THEN << >>
        ELSE LET i == CHOOSE x \in at : \A y \in at : x <= y
             IN  <<SubSeq(range, 1, i - 1), SubSeq(range, i + 3, Len(range))>>

\* Mutant: rev-parse without --verify of a ref that need not resolve: the
\* command exits zero whenever it runs.
RevParseWithoutVerify(f, lp, rs, ref, exec) ==
    runGitCommand(f, lp, exec, TRUE, <<"c", Newline>>)

\* git rev-parse --verify <ref>
RevParseVerify(f, lp, rs, ref, exec) ==
    runGitCommand(f, lp, exec, Resolves(f, lp, rs, ref),
                  IF Resolves(f, lp, rs, ref) THEN <<"c", Newline>>
                  ELSE <<"f", "a", "t", "a", "l", Newline>>)

\* git diff <range> --unified=10: the same commit on both sides has no diff.
GitDiff(f, lp, rs, range, exec, raw) ==
    LET sides == RangeSides(range)
        ok == /\ sides # << >>
              /\ Resolves(f, lp, rs, sides[1])
              /\ Resolves(f, lp, rs, sides[2])
    IN  runGitCommand(f, lp, exec, ok,
                      IF ~ok THEN <<"f", "a", "t", "a", "l", Newline>>
                      ELSE IF sides[1] = sides[2] THEN EmptyString
                      ELSE raw)

\* fmt.Sprintf("origin/%s", branch)
OriginRef(branch) == OriginSlash \o branch

\* Mutant: the feature ref is put on the left.
DiffRangeFeatureFirst(baseRef, featureRef) == featureRef \o ThreeDots \o baseRef

\* fmt.Sprintf("%s...%s", baseRef, featureRef)
DiffRange(baseRef, featureRef) == baseRef \o ThreeDots \o featureRef

\* The first command of a call that does not simply run, and how it goes
\* instead; at = 0 when every command runs.
Faults(n) == {NoFault}
             \cup {[at |-> i, how |-> h] : i \in 1..n, h \in GitExecOutcomes \ {"ok"}}

ExecAt(fault, i) == IF fault.at = i THEN fault.how ELSE "ok"

\* The fault, if the call got as far as the command it is about.
FaultMet(fault, calls) == IF fault.at \in 1..Len(calls) THEN fault ELSE NoFault

\* Mutant: a failed diff command is logged and the empty string returned.
GetCodeDiffSwallowsDiffError(f, lp, rs, key, insecure, base, feature, fault, raw) ==
    LET baseRef == OriginRef(base)
        featureRef == OriginRef(feature)
        range == DiffRange(baseRef, featureRef)
        r3 == GitDiff(f, lp, rs, range, ExecAt(fault, 3), raw)
    IN  [out |-> r3.out, err |-> GitNil, printed |-> EmptyString,
         calls |-> <<GitCall(Elements(lp), "rev-parse", <<"--verify">>, <<baseRef>>, key, insecure),
                     GitCall(Elements(lp), "rev-parse", <<"--verify">>, <<featureRef>>, key,
                             insecure),
                     GitCall(Elements(lp), "diff", <<"--unified=10">>, <<range>>, key,
                             insecure)>>]

\* GetCodeDiff(ctx, baseBranch, featureBranch)
GetCodeDiff(f, lp, rs, key, insecure, base, feature, fault, raw) ==
    LET baseRef == OriginRef(base)
        featureRef == OriginRef(feature)
        c1 == GitCall(Elements(lp), "rev-parse", <<"--verify">>, <<baseRef>>, key, insecure)
        r1 == RevParseVerify(f, lp, rs, baseRef, ExecAt(fault, 1))
        c2 == GitCall(Elements(lp), "rev-parse", <<"--verify">>, <<featureRef>>, key, insecure)
        r2 == RevParseVerify(f, lp, rs, featureRef, ExecAt(fault, 2))
        range == DiffRange(baseRef, featureRef)
        c3 == GitCall(Elements(lp), "diff", <<"--unified=10">>, <<range>>, key, insecure)
        r3 == GitDiff(f, lp, rs, range, ExecAt(fault, 3), raw)
    IN  IF r1.err.kind # "nil"
        THEN [out |-> EmptyString, err |-> WrapRef("base ref unresolved", baseRef, r1.err),
              printed |-> EmptyString, calls |-> <<c1>>]
        ELSE IF r2.err.kind # "nil"
        THEN [out |-> EmptyString,
              err |-> WrapRef("feature ref unresolved", featureRef, r2.err),
              printed |-> EmptyString, calls |-> <<c1, c2>>]
        ELSE IF r3.err.kind # "nil"
        THEN [out |-> EmptyString, err |-> WrapRef("diff failed", EmptyString, r3.err),
              printed |-> EmptyString, calls |-> <<c1, c2, c3>>]
        ELSE [out |-> r3.out, err |-> GitNil,
              printed |-> IF base = feature THEN EmptyString ELSE raw,
              calls |-> <<c1, c2, c3>>]

\* Mutant: a ref that does not resolve is reported as an error.
CheckRemoteBranchExistsErrOnMissing(f, lp, rs, key, insecure, branch, fault) ==
    LET ref == OriginRef(branch)
        r == RevParseVerify(f, lp, rs, ref, ExecAt(fault, 1))
    IN  [exists |-> r.err.kind = "nil",
         err |-> IF r.err.kind = "nil" THEN GitNil
                 ELSE WrapRef("remote branch check failed", ref, r.err),
         calls |-> <<GitCall(Elements(lp), "rev-parse", <<"--verify">>, <<ref>>, key,
                             insecure)>>]

\* CheckRemoteBranchExists(ctx, branch): whatever error the command returns
\* is logged and the answer is false.
CheckRemoteBranchExists(f, lp, rs, key, insecure, branch, fault) ==
    IF branch = EmptyString
    THEN [exists |-> FALSE, err |-> GitErr("branch name is empty", "empty branch", EmptyString),
          calls |-> << >>]
    ELSE LET ref == OriginRef(branch)
             r == RevParseVerify(f, lp, rs, ref, ExecAt(fault, 1))
         IN  [exists |-> r.err.kind = "nil", err |-> GitNil,
              calls |-> <<GitCall(Elements(lp), "rev-parse", <<"--verify">>, <<ref>>, key,
                                  insecure)>>]

\* The branch names tried, and what git diff may print for differing commits.
BranchNames == {<<"m">>, <<"f">>}

Branches == {EmptyString} \cup BranchNames

DiffOutputs == {EmptyString, <<Newline>>, <<"+", "x", Newline>>}

\* How the three commands of one GetCodeDiff go: all are run and the diff
\* prints raw, or the first one that is not run to completion and how.
DiffRuns ==
    {[fault |-> NoFault, raw |-> raw] : raw \in DiffOutputs}
        \cup {[fault |-> fault, raw |-> EmptyString] : fault \in Faults(3) \ {NoFault}}

\* The diff command the call before issued, if it issued one.
LastDiff ==
    IF gitOp.name = "GetCodeDiff" /\ Len(gitCalls) = 3
    THEN [base |-> gitOp.base, feature |-> gitOp.feature,
          range |-> gitCalls[3].operands[1], issued |-> TRUE]
    ELSE NoDiff

GetCodeDiffCall ==
    /\ pc = "git"
    /\ \E base \in BranchNames, feature \in BranchNames, run \in DiffRuns :
        \E fault \in {run.fault},
           r \in {GetCodeDiff(fs, localPath, refs, sshKeyPath, insecureSkip, base, feature,
                              run.fault, run.raw)} :
            /\ gitCalls' = r.calls
            /\ gitRet' = [out |-> r.out, exists |-> FALSE, err |-> r.err]
            /\ gitOp' = [name |-> "GetCodeDiff", base |-> base, feature |-> feature,
                         pre |-> fs, fault |-> FaultMet(fault, r.calls),
                         printed |-> r.printed]
    /\ prevDiff' = LastDiff
    /\ UNCHANGED <<localPath, sshKeyPath, insecureSkip, fs, refs, sshCmd>>
    /\ UNCHANGED <<variant, storageURI, webhookURL, awsRegion, pc, events, urlSigner,
                   publicURL, signReq, message, logs, notifyErr, result, callerVars,
                   restVars>>

CheckRemoteBranchExistsCall ==
    /\ pc = "git"
    /\ \E branch \in Branches, fault \in Faults(1) :
        \E r \in {CheckRemoteBranchExists(fs, localPath, refs, sshKeyPath, insecureSkip,
                                          branch, fault)} :
            /\ gitCalls' = r.calls
            /\ gitRet' = [out |-> EmptyString, exists |-> r.exists, err |-> r.err]
            /\ gitOp' = [name |-> "CheckRemoteBranchExists", base |-> branch,
                         feature |-> EmptyString, pre |-> fs,
                         fault |-> FaultMet(fault, r.calls), printed |-> EmptyString]
    /\ prevDiff' = NoDiff
    /\ UNCHANGED <<localPath, sshKeyPath, insecureSkip, fs, refs, sshCmd>>
    /\ UNCHANGED <<variant, storageURI, webhookURL, awsRegion, pc, events, urlSigner,
                   publicURL, signReq, message, logs, notifyErr, result, callerVars,
                   restVars>>

\* runGitCommand(ctx, "rev-parse", "--verify", "origin/<branch>"), seen by
\* itself: what the command printed, and the string and error returned.
RunGitCommandCall ==
    /\ pc = "git"
    /\ \E branch \in BranchNames, fault \in Faults(1) :
        LET ref == OriginRef(branch)
            r == RevParseVerify(fs, localPath, refs, ref, ExecAt(fault, 1))
            ran == /\ fault.how \in {"ok", "exit"}
                   /\ Stat(fs, localPath) = [err |-> "nil", isDir |-> TRUE]
        IN  /\ gitCalls' = <<GitCall(Elements(localPath), "rev-parse", <<"--verify">>, <<ref>>,
                                     sshKeyPath, insecureSkip)>>
            /\ gitRet' = [out |-> r.out, exists |-> FALSE, err |-> r.err]
            /\ gitOp' = [name |-> "runGitCommand", base |-> branch, feature |-> EmptyString,
                         pre |-> fs, fault |-> fault,
                         printed |-> IF ~ran THEN EmptyString
                                     ELSE IF Resolves(fs, localPath, refs, ref)
                                     THEN <<"c", Newline>>
                                     ELSE <<"f", "a", "t", "a", "l", Newline>>]
    /\ prevDiff' = NoDiff
    /\ UNCHANGED <<localPath, sshKeyPath, insecureSkip, fs, refs, sshCmd>>
    /\ UNCHANGED <<variant, storageURI, webhookURL, awsRegion, pc, events, urlSigner,
                   publicURL, signReq, message, logs, notifyErr, result, callerVars,
                   restVars>>

\* A cloned repository at the local path w, or nothing there.
RepoFs == {Node(<<<<"w">>>>, "dir", "git"), Node(<<<<"w">>, DotGit>>, "dir", "git")}

InitGit ==
    /\ PublishIdle
    /\ localPath = <<"w">>
    /\ sshKeyPath \in SshKeyPaths
    /\ insecureSkip \in BOOLEAN
    /\ fs \in {RepoFs, {}}
    /\ refs \in SUBSET BranchNames
    /\ gitCalls = << >>
    /\ gitOp = NoGitOp
    /\ gitRet = NoGitRet
    /\ prevDiff = NoDiff
    /\ sshCmd = NoSshCmd
    /\ RestIdle

NextGit ==
    \/ GetCodeDiffCall
    \/ CheckRemoteBranchExistsCall
    \/ RunGitCommandCall

GitSpec == InitGit /\ [][NextGit]_vars

\* ------------------------------------------------------------------------
\* The git adapter: Fetch and Cleanup
\* ------------------------------------------------------------------------
\* The commits pushed to a branch of the remote are numbered from 1.
MaxCommit == 2

\* The commit a branch is at, 0 when the branch is not there.
CommitOf(commits, b) == IF b \in DOMAIN commits THEN commits[b] ELSE 0

\* What a command that ran as `run` leaves of the remote-tracking refs.
Fetched(run, rs, w, org, prune) ==
    LET names == (IF prune THEN rs \cap DOMAIN org ELSE rs) \cup DOMAIN org
    IN  IF run.err.kind # "nil" THEN [run |-> run, refs |-> rs, work |-> w]
        ELSE [run |-> run, refs |-> names,
              work |-> [w EXCEPT !.tracking =
                            [b \in names |-> IF b \in DOMAIN org THEN org[b]
                                             ELSE CommitOf(w.tracking, b)]]]

\* git fetch origin [--prune]: every branch of the remote gets its
\* remote-tracking ref moved to the remote's commit; with --prune the refs
\* of branches the remote no longer has are deleted.
GitFetch(f, lp, rs, w, org, prune, exec) ==
    Fetched(runGitCommand(f, lp, exec, RepositoryState(f, lp) = "PresentGitRepo",
                          EmptyString),
            rs, w, org, prune)

\* What a checkout that ran as `run` leaves: the branch at commit c, checked
\* out.
CheckedOut(run, w, branch, c) ==
    IF run.err.kind # "nil" THEN [run |-> run, work |-> w]
    ELSE [run |-> run,
          work |-> [w EXCEPT !.heads = [b \in DOMAIN w.heads \cup {branch} |->
                                           IF b = branch THEN c ELSE w.heads[b]],
                             !.branch = branch]]

\* Mutant: git checkout -b, which refuses a branch that exists.
GitCheckoutNewBranch(f, lp, rs, w, branch, start, exec) ==
    CheckedOut(runGitCommand(f, lp, exec,
                             Resolves(f, lp, rs, start) /\ branch \notin DOMAIN w.heads,
                             EmptyString),
               w, branch, CommitOf(w.tracking, TrimPrefix(start, OriginSlash)))

\* git checkout -B <branch> <start>: the branch is created, or reset when it
\* exists, at the commit of start and checked out.
GitCheckoutB(f, lp, rs, w, branch, start, exec) ==
    CheckedOut(runGitCommand(f, lp, exec, Resolves(f, lp, rs, start), EmptyString),
               w, branch, CommitOf(w.tracking, TrimPrefix(start, OriginSlash)))

\* The files and directories below the local path that git did not put there.
Untracked(f, lp) ==
    {n \in f : /\ IsPrefixOf(Elements(lp), n.path)
               /\ n.path # Elements(lp)
               /\ n.mode # "git"}

\* What a clean that ran as `run` leaves of the files.
Cleaned(run, f, lp) ==
    IF run.err.kind # "nil" THEN [run |-> run, fs |-> f]
    ELSE [run |-> run, fs |-> f \ Untracked(f, lp)]

\* git clean -f -d: the untracked files and directories are removed.
GitClean(f, lp, exec) ==
    Cleaned(runGitCommand(f, lp, exec, RepositoryState(f, lp) = "PresentGitRepo",
                          EmptyString),
            f, lp)

\* Fetch, once its command returned.
FetchReturns(r, call) ==
    [err |-> IF r.run.err.kind = "nil" THEN GitNil
             ELSE WrapRef("fetch failed", EmptyString, r.run.err),
     refs |-> r.refs, work |-> r.work, calls |-> <<call>>]

\* Fetch(ctx)
Fetch(f, lp, rs, w, org, key, insecure, fault) ==
    FetchReturns(GitFetch(f, lp, rs, w, org, TRUE, ExecAt(fault, 1)),
                 GitCall(Elements(lp), "fetch", <<"--prune">>, <<<<"origin">>>>, key, insecure))

\* The three commands of Cleanup.
CleanupCommands(lp, key, insecure, base) ==
    <<GitCall(Elements(lp), "fetch", << >>, <<<<"origin">>>>, key, insecure),
      GitCall(Elements(lp), "checkout", <<"-B">>, <<base, OriginRef(base)>>, key, insecure),
      GitCall(Elements(lp), "clean", <<"-f", "-d">>, << >>, key, insecure)>>

\* Cleanup from the return of clean on (part_004:253-258).
CleanupAfterClean(r1, r2, r3, calls, f) ==
    IF r3.run.err.kind # "nil"
    THEN [err |-> WrapRef("cleanup clean failed", EmptyString, r3.run.err),
          fs |-> f, refs |-> r1.refs, work |-> r2.work, calls |-> calls]
    ELSE [err |-> GitNil, fs |-> r3.fs, refs |-> r1.refs, work |-> r2.work, calls |-> calls]

\* Cleanup from the return of checkout on (part_004:248-253).
CleanupAfterCheckout(r1, r2, calls, f, lp, fault) ==
    IF r2.run.err.kind # "nil"
    THEN [err |-> WrapRef("cleanup checkout failed", EmptyString, r2.run.err),
          fs |-> f, refs |-> r1.refs, work |-> r1.work, calls |-> SubSeq(calls, 1, 2)]
    ELSE CleanupAfterClean(r1, r2, GitClean(f, lp, ExecAt(fault, 3)), calls, f)

\* Cleanup from the return of fetch on (part_004:242-248).
CleanupAfterFetch(r1, calls, f, lp, rs, w, base, fault) ==
    IF r1.run.err.kind # "nil"
    THEN [err |-> WrapRef("cleanup fetch failed", EmptyString, r1.run.err),
          fs |-> f, refs |-> rs, work |-> w, calls |-> SubSeq(calls, 1, 1)]
    ELSE CleanupAfterCheckout(r1,
                              GitCheckoutB(f, lp, r1.refs, r1.work, base, OriginRef(base),
                                           ExecAt(fault, 2)),
                              calls, f, lp, fault)

\* Mutant: the worktree is cleaned before the fetch and the checkout.
CleanupCleansFirst(f, lp, rs, w, org, key, insecure, base, fault) ==
    LET r3 == GitClean(f, lp, ExecAt(fault, 1))
        r1 == GitFetch(f, lp, rs, w, org, FALSE, ExecAt(fault, 2))
        r2 == GitCheckoutB(f, lp, r1.refs, r1.work, base, OriginRef(base), ExecAt(fault, 3))
        calls == CleanupCommands(lp, key, insecure, base)
    IN  [err |-> IF r3.run.err.kind # "nil" THEN r3.run.err
                 ELSE IF r1.run.err.kind # "nil" THEN r1.run.err ELSE r2.run.err,
         fs |-> r3.fs, refs |-> r1.refs, work |-> r2.work,
         calls |-> <<calls[3], calls[1], calls[2]>>]

\* Cleanup(ctx)
Cleanup(f, lp, rs, w, org, key, insecure, base, fault) ==
    CleanupAfterFetch(GitFetch(f, lp, rs, w, org, FALSE, ExecAt(fault, 1)),
                      CleanupCommands(lp, key, insecure, base), f, lp, rs, w, base, fault)

FetchCall ==
    /\ pc = "git"
    /\ \E fault \in Faults(1) :
        \E r \in {Fetch(fs, localPath, refs, work, origin, sshKeyPath, insecureSkip, fault)} :
            /\ refs' = r.refs
            /\ work' = r.work
            /\ gitCalls' = r.calls
            /\ gitRet' = [out |-> EmptyString, exists |-> FALSE, err |-> r.err]
            /\ gitOp' = [name |-> "Fetch", base |-> EmptyString, feature |-> EmptyString,
                         pre |-> fs, fault |-> fault, printed |-> EmptyString]
    /\ prevDiff' = NoDiff
    /\ prevCleanup' = NoCleanup
    /\ UNCHANGED <<localPath, sshKeyPath, insecureSkip, fs, sshCmd>>
    /\ UNCHANGED <<variant, storageURI, webhookURL, awsRegion, pc, events, urlSigner,
                   publicURL, signReq, message, logs, notifyErr, result, callerVars,
                   repoVars, runCtx, origin, baseBranch, procs>>

\* What the call before left, if it was a Cleanup that returned nil.
LastCleanup ==
    IF gitOp.name = "Cleanup" /\ gitRet.err = GitNil
    THEN [ok |-> TRUE, fs |-> fs, refs |-> refs, work |-> work]
    ELSE NoCleanup

CleanupCall ==
    /\ pc = "git"
    /\ \E fault \in Faults(3) :
        \E r \in {Cleanup(fs, localPath, refs, work, origin, sshKeyPath, insecureSkip,
                          baseBranch, fault)} :
            /\ fs' = r.fs
            /\ refs' = r.refs
            /\ work' = r.work
            /\ gitCalls' = r.calls
            /\ gitRet' = [out |-> EmptyString, exists |-> FALSE, err |-> r.err]
            /\ gitOp' = [name |-> "Cleanup", base |-> baseBranch, feature |-> EmptyString,
                         pre |-> fs, fault |-> FaultMet(fault, r.calls),
                         printed |-> EmptyString]
    /\ prevDiff' = NoDiff
    /\ prevCleanup' = LastCleanup
    /\ UNCHANGED <<localPath, sshKeyPath, insecureSkip, sshCmd>>
    /\ UNCHANGED <<variant, storageURI, webhookURL, awsRegion, pc, events, urlSigner,
                   publicURL, signReq, message, logs, notifyErr, result, callerVars,
                   repoVars, runCtx, origin, baseBranch, procs>>

\* Someone pushes a commit to a branch of the remote.
PushToOrigin ==
    /\ pc = "git"
    /\ \E b \in DOMAIN origin :
        /\ origin[b] < MaxCommit
        /\ origin' = [origin EXCEPT ![b] = origin[b] + 1]
    /\ UNCHANGED <<variant, storageURI, webhookURL, awsRegion, pc, events, urlSigner,
                   publicURL, signReq, message, logs, notifyErr, result, callerVars,
                   gitVars, repoVars, runCtx, work, baseBranch, prevCleanup, procs>>

\* A file and a directory with a file that git did not put into the
\* worktree at w.
Leftovers ==
    {Node(<<<<"w">>, <<"f">>>>, "file", "0600"), Node(<<<<"w">>, <<"d">>>>, "dir", "0700"),
     Node(<<<<"w">>, <<"d">>, <<"f">>>>, "file", "0600")}

\* The remotes a run starts from: branch m, with or without branch f.
Origins == {[b \in bs |-> 1] : bs \in {{<<"m">>}, {<<"m">>, <<"f">>}}}

\* An adapter for base branch m or f over nothing, or over a clone of the
\* remote with or without leftovers of an earlier run.
InitCleanup ==
    /\ PublishIdle
    /\ localPath = <<"w">>
    /\ sshKeyPath = EmptyString
    /\ insecureSkip = FALSE
    /\ origin \in Origins
    /\ baseBranch \in BranchNames
    /\ \/ fs = {} /\ refs = {} /\ work = NoWork
       \/ /\ fs \in {RepoFs, RepoFs \cup Leftovers}
          /\ refs = DOMAIN origin
          /\ work = Cloned(origin)
    /\ gitCalls = << >>
    /\ gitOp = NoGitOp
    /\ gitRet = NoGitRet
    /\ prevDiff = NoDiff
    /\ sshCmd = NoSshCmd
    /\ prevCleanup = NoCleanup
    /\ RepoIdle
    /\ runCtx = "live"
    /\ procs = << >>

NextCleanup ==
    \/ FetchCall
    \/ CleanupCall
    \/ PushToOrigin

CleanupSpec == InitCleanup /\ [][NextCleanup]_vars

\* An adapter with or without an SSH key, with or without host key check
\* skipping, over a local path where nothing is yet.
InitAdapter ==
    /\ PublishIdle
    /\ localPath = <<"w">>
    /\ sshKeyPath \in SshKeyPaths
    /\ insecureSkip \in BOOLEAN
    /\ origin = [b \in BranchNames |-> 1]
    /\ baseBranch = DefaultBranch
    /\ fs = {}
    /\ refs = {}
    /\ work = NoWork
    /\ gitCalls = << >>
    /\ gitOp = NoGitOp
    /\ gitRet = NoGitRet
    /\ prevDiff = NoDiff
    /\ sshCmd = NoSshCmd
    /\ prevCleanup = NoCleanup
    /\ RepoIdle
    /\ runCtx = "live"
    /\ procs = << >>

\* Every method of the adapter that launches git.
NextAdapter ==
    \/ CloneOrUpdateCall
    \/ FetchCall
    \/ GetCodeDiffCall
    \/ CheckRemoteBranchExistsCall
    \/ CleanupCall

AdapterSpec == InitAdapter /\ [][NextAdapter]_vars

\* ------------------------------------------------------------------------
\* The git adapter: concurrent runs of CloneOrUpdate on one local path
\* ------------------------------------------------------------------------
\* The runs that call CloneOrUpdate at the same time.
MaxProcs == 2

Procs == 1..MaxProcs

NoStat == [err |-> "none", isDir |-> FALSE]

\* A run that has not yet looked at the local path.
Entered == [pc |-> "stat", info |-> NoStat, mk |-> "none", launched |-> FALSE, err |-> GitNil]

\* The run returns err.
Return(run, err) == [run EXCEPT !.pc = "done", !.err = err]

\* info, err := os.Stat(localPath) and the branch taken on it
\* (part_004:124-127, :141, :171-174).
StatLocalPath(run, f, lp) ==
    LET info == Stat(f, lp)
        seen == [run EXCEPT !.info = info]
    IN  IF info.err = "nil" THEN
            IF ~info.isDir
            THEN Return(seen, GitErr("local path is not a directory", "not a directory",
                                     EmptyString))
            ELSE [seen EXCEPT !.pc = "statgit"]
        ELSE IF IsNotExist(info) THEN [seen EXCEPT !.pc = "mkdir"]
        ELSE Return(seen, GitErr("local path check failed", info.err, EmptyString))

\* _, gitDirErr := os.Stat(filepath.Join(localPath, ".git")) (part_004:130-139).
StatGitDir(run, f, lp) ==
    LET gitDir == Stat(f, Join(lp, DotGit))
    IN  IF IsNotExist(gitDir)
        THEN Return(run, GitErr("local path exists but is not a git repository",
                                "not a repository", EmptyString))
        ELSE IF gitDir.err # "nil"
        THEN Return(run, GitErr(".git check failed", gitDir.err, EmptyString))
        ELSE Return(run, GitNil)

\* The parent directory is made if it is missing (part_004:146-154).
MakeParent(run, f, lp, mkdirOK) ==
    LET parentDir == Dir(lp)
        mk == IF IsNotExist(Stat(f, parentDir)) THEN MkdirAll(f, parentDir, mkdirOK)
              ELSE [err |-> "nil", fs |-> f]
    IN  [fs |-> mk.fs,
         run |-> IF mk.err # "nil"
                 THEN Return([run EXCEPT !.mk = mk.err],
                             GitErr("parent directory creation failed", mk.err, EmptyString))
                 ELSE [run EXCEPT !.mk = "nil", !.pc = "clone"]]

\* Mutant: the local path is looked at again before the clone, which is
\* left out when the path is there by now.
LaunchCloneIfStillAbsent(run, f, lp, exec) ==
    LET c == GitClone(f, Dir(lp), Base(lp), exec)
    IN  IF Stat(f, lp).err = "nil" THEN [fs |-> f, cloned |-> FALSE, run |-> Return(run, GitNil)]
        ELSE [fs |-> c.fs, cloned |-> c.ok,
              run |-> Return([run EXCEPT !.launched = TRUE],
                             IF c.ok THEN GitNil
                             ELSE GitErr("clone failed", c.cause, <<"f", "a", "t", "a", "l">>))]

\* git clone repositoryURL repoDir in parentDir (part_004:157-170).
LaunchClone(run, f, lp, exec) ==
    LET c == GitClone(f, Dir(lp), Base(lp), exec)
    IN  [fs |-> c.fs, cloned |-> c.ok,
         run |-> Return([run EXCEPT !.launched = TRUE],
                        IF c.ok THEN GitNil
                        ELSE GitErr("clone failed", c.cause, <<"f", "a", "t", "a", "l">>))]

\* One step of the CloneOrUpdate call of run p: up to and including its
\* next system call or subprocess.
CloneOrUpdateStep(p) ==
    /\ pc = "git"
    /\ p \in DOMAIN procs
    /\ procs[p].pc # "done"
    /\ \E mkdirOK \in BOOLEAN, exec \in ExecOutcomes :
        LET run == procs[p]
            m == MakeParent(run, fs, localPath, mkdirOK)
            c == LaunchClone(run, fs, localPath, exec)
        IN  CASE run.pc = "stat" ->
                    /\ procs' = [procs EXCEPT ![p] = StatLocalPath(run, fs, localPath)]
                    /\ UNCHANGED <<fs, gitCalls, refs, work>>
              [] run.pc = "statgit" ->
                    /\ procs' = [procs EXCEPT ![p] = StatGitDir(run, fs, localPath)]
                    /\ UNCHANGED <<fs, gitCalls, refs, work>>
              [] run.pc = "mkdir" ->
                    /\ procs' = [procs EXCEPT ![p] = m.run]
                    /\ fs' = m.fs
                    /\ UNCHANGED <<gitCalls, refs, work>>
              [] run.pc = "clone" ->
                    /\ procs' = [procs EXCEPT ![p] = c.run]
                    /\ fs' = c.fs
                    /\ gitCalls' = Append(gitCalls,
                                          GitCall(Elements(Dir(localPath)), "clone", << >>,
                                                  <<RepoURL, Base(localPath)>>, sshKeyPath,
                                                  insecureSkip))
                    /\ refs' = (IF c.cloned THEN DOMAIN origin ELSE refs)
                    /\ work' = (IF c.cloned THEN Cloned(origin) ELSE work)
    /\ UNCHANGED <<localPath, sshKeyPath, insecureSkip, gitOp, gitRet, prevDiff, sshCmd>>
    /\ UNCHANGED <<variant, storageURI, webhookURL, awsRegion, pc, events, urlSigner,
                   publicURL, signReq, message, logs, notifyErr, result, callerVars,
                   repoVars, runCtx, origin, baseBranch, prevCleanup>>

\* The local paths the concurrent runs share, and what is there at first.
SharedPaths == {<<"w">>, <<"p", PathSeparator, "w">>}

InitConcurrent ==
    /\ PublishIdle
    /\ localPath \in SharedPaths
    /\ sshKeyPath \in SshKeyPaths
    /\ insecureSkip = FALSE
    /\ origin \in Origins
    /\ baseBranch = DefaultBranch
    /\ fs \in {{}, Chain(Elements(localPath), Len(Elements(localPath)), "dir"),
                Chain(Elements(localPath), Len(Elements(localPath)), "dir")
                    \cup {Node(Append(Elements(localPath), DotGit), "dir", "git")}}
    /\ refs = {}
    /\ work = NoWork
    /\ gitCalls = << >>
    /\ gitOp = NoGitOp
    /\ gitRet = NoGitRet
    /\ prevDiff = NoDiff
    /\ sshCmd = NoSshCmd
    /\ prevCleanup = NoCleanup
    /\ RepoIdle
    /\ runCtx = "live"
    /\ procs = [p \in Procs |-> Entered]

NextConcurrent == \E p \in Procs : CloneOrUpdateStep(p)

ConcurrentSpec == InitConcurrent /\ [][NextConcurrent]_vars

\* ------------------------------------------------------------------------
\* The git adapter: GIT_SSH_COMMAND as the shell reads it
\* ------------------------------------------------------------------------
DoubleQuote == "\""
Semicolon == ";"

\* Characters that end a word and are a token of their own.
ShellOperators == {Semicolon}

\* What a backslash escapes inside double quotes.
DoubleQuoteEscapable == {DoubleQuote, Backslash}

Word(text) == [kind |-> "word", text |-> text]

Flush(acc, cur, open) == IF open THEN Append(acc, Word(cur)) ELSE acc

\* One step of token recognition of the shell command language: st holds
\* the position i in str, the quoting in force, the word being built, whether
\* a word has begun, and the tokens so far.
ShellStep(str, st) ==
    LET c == str[st.i]
        more == st.i < Len(str)
        take(k, ch) == [st EXCEPT !.i = st.i + k, !.cur = Append(st.cur, ch), !.open = TRUE]
        enter(mode) == [st EXCEPT !.i = st.i + 1, !.mode = mode, !.open = TRUE]
        flushed == Flush(st.acc, st.cur, st.open)
        cut(acc) == [i |-> st.i + 1, mode |-> "plain", cur |-> EmptyString, open |-> FALSE,
                     acc |-> acc]
    IN  CASE st.mode = "single" /\ c = Quote -> enter("plain")
          [] st.mode = "single" /\ c # Quote -> take(1, c)
          [] st.mode = "double" /\ c = DoubleQuote -> enter("plain")
          [] st.mode = "double" /\ c = Backslash /\ more
                /\ str[st.i + 1] \in DoubleQuoteEscapable -> take(2, str[st.i + 1])
          [] st.mode = "plain" /\ c = Space -> cut(flushed)
          [] st.mode = "plain" /\ c = Quote -> enter("single")
          [] st.mode = "plain" /\ c = DoubleQuote -> enter("double")
          [] st.mode = "plain" /\ c = Backslash /\ more -> take(2, str[st.i + 1])
          [] st.mode = "plain" /\ c = Backslash /\ ~more -> [st EXCEPT !.i = st.i + 1,
                                                                     !.mode = "escape"]
          [] st.mode = "plain" /\ c \in ShellOperators ->
                cut(Append(flushed, [kind |-> "operator", text |-> <<c>>]))
          [] OTHER -> take(1, c)

RECURSIVE ShellScan(_, _)
\* The steps from st to the end of str; a quote or escape left open at the
\* end is not a word.
ShellScan(str, st) ==
    IF st.i > Len(str)
    THEN IF st.mode = "plain" THEN Flush(st.acc, st.cur, st.open)
         ELSE Append(st.acc, [kind |-> "unterminated", text |-> st.cur])
    ELSE ShellScan(str, ShellStep(str, st))

\* The tokens the shell running GIT_SSH_COMMAND splits str into.
ShellTokens(str) ==
    ShellScan(str, [i |-> 1, mode |-> "plain", cur |-> EmptyString, open |-> FALSE,
                    acc |-> << >>])

\* The SSH key paths tried: every string of up to MaxKeyLen of these.
KeyChars == {"k", Quote, Space, Semicolon, Backslash, DoubleQuote}

KeyPaths == SeqsUpTo(KeyChars, MaxKeyLen)

\* A git subprocess is about to be started and its environment is built.
GetEnvWithSSHCall ==
    /\ pc = "git"
    /\ gitOp = NoGitOp
    /\ sshCmd' = getEnvWithSSH(sshKeyPath, insecureSkip)
    /\ gitOp' = [NoGitOp EXCEPT !.name = "getEnvWithSSH"]
    /\ UNCHANGED <<localPath, sshKeyPath, insecureSkip, fs, refs, gitCalls, gitRet, prevDiff>>
    /\ UNCHANGED <<variant, storageURI, webhookURL, awsRegion, pc, events, urlSigner,
                   publicURL, signReq, message, logs, notifyErr, result, callerVars,
                   restVars>>

InitSsh ==
    /\ PublishIdle
    /\ localPath = <<"w">>
    /\ sshKeyPath \in KeyPaths
    /\ insecureSkip \in BOOLEAN
    /\ fs = RepoFs
    /\ refs = {}
    /\ gitCalls = << >>
    /\ gitOp = NoGitOp
    /\ gitRet = NoGitRet
    /\ prevDiff = NoDiff
    /\ sshCmd = NoSshCmd
    /\ RestIdle

NextSsh == GetEnvWithSSHCall

SshSpec == InitSsh /\ [][NextSsh]_vars

\* ------------------------------------------------------------------------
\* net/url: Parse, for URLs without ?, #, [ and control characters
\* ------------------------------------------------------------------------
Letters ==
    {"a", "b", "c", "d", "e", "f", "g", "h", "i", "j", "k", "l", "m", "n", "o", "p", "q",
     "r", "s", "t", "u", "v", "w", "x", "y", "z", "A", "B", "C", "D", "E", "F", "G", "H",
     "I", "J", "K", "L", "M", "N", "O", "P", "Q", "R", "S", "T", "U", "V", "W", "X", "Y",
     "Z"}

DecimalDigits == {"0", "1", "2", "3", "4", "5", "6", "7", "8", "9"}

HexDigits ==
    DecimalDigits \cup {"a", "b", "c", "d", "e", "f", "A", "B", "C", "D", "E", "F"}

\* unhex
Unhex(c) ==
    CASE c \in DecimalDigits ->
            (CHOOSE i \in 0..9 : <<"0", "1", "2", "3", "4", "5", "6", "7", "8", "9">>[i + 1] = c)
      [] c \in {"a", "A"} -> 10
      [] c \in {"b", "B"} -> 11
      [] c \in {"c", "C"} -> 12
      [] c \in {"d", "D"} -> 13
      [] c \in {"e", "E"} -> 14
      [] OTHER -> 15

\* The ASCII characters of codes 32 to 95 and 97 to 126.
Printable ==
    <<" ", "!", DoubleQuote, "#", "$", "%", "&", "'", "(", ")", "*", "+", ",", "-", ".", "/",
      "0", "1", "2", "3", "4", "5", "6", "7", "8", "9", ":", ";", "<", "=", ">", "?",
      "@", "A", "B", "C", "D", "E", "F", "G", "H", "I", "J", "K", "L", "M", "N", "O",
      "P", "Q", "R", "S", "T", "U", "V", "W", "X", "Y", "Z", "[", Backslash, "]", "^", "_">>

PrintableLower ==
    <<"a", "b", "c", "d", "e", "f", "g", "h", "i", "j", "k", "l", "m", "n", "o", "p", "q",
      "r", "s", "t", "u", "v", "w", "x", "y", "z", "{", "|", "}", "~">>

\* The character a %XY escape stands for; a byte outside these tables is
\* kept as its escape.
Unescaped(hi, lo) ==
    LET b == 16 * Unhex(hi) + Unhex(lo)
    IN  IF b \in 32..95 THEN <<Printable[b - 31]>>
        ELSE IF b \in 97..126 THEN <<PrintableLower[b - 96]>>
        ELSE <<"%", hi, lo>>

\* The positions of str where a % is not followed by two hex digits.
BadEscapes(str) ==
    {i \in 1..Len(str) :
        /\ str[i] = "%"
        /\ \/ i + 2 > Len(str)
           \/ str[i + 1] \notin HexDigits
           \/ str[i + 2] \notin HexDigits}

\* shouldEscape(c, encodeHost)
shouldEscapeHost(c) ==
    /\ c \notin Letters \cup DecimalDigits
    /\ c \notin {"!", "$", "&", "'", "(", ")", "*", "+", ",", ";", "=", ":", "[", "]", "<",
                 ">", DoubleQuote}
    /\ c \notin {"-", "_", ".", "~"}

RECURSIVE Decode(_)
Decode(str) ==
    IF str = << >> THEN << >>
    ELSE IF str[1] = "%" THEN Unescaped(str[2], str[3]) \o Decode(SubSeq(str, 4, Len(str)))
    ELSE <<str[1]>> \o Decode(Tail(str))

\* unescape(s, mode) for mode encodePath, encodeUserPassword ("path") and
\* encodeHost ("host").
unescape(str, mode) ==
    IF BadEscapes(str) # {} THEN [err |-> "invalid URL escape", value |-> EmptyString]
    ELSE IF mode = "host" /\ \E i \in 1..Len(str) :
                str[i] = "%" /\ Unhex(str[i + 1]) < 8 /\ SubSeq(str, i, i + 2) # <<"%", "2", "5">>
    THEN [err |-> "invalid URL escape", value |-> EmptyString]
    ELSE IF mode = "host" /\ \E i \in 1..Len(str) : str[i] # "%" /\ shouldEscapeHost(str[i])
    THEN [err |-> "invalid character in host name", value |-> EmptyString]
    ELSE [err |-> "nil", value |-> Decode(str)]

\* getScheme
getScheme(rawURL) ==
    LET stops == {i \in 1..Len(rawURL) :
                    ~(\/ rawURL[i] \in Letters
                      \/ (i > 1 /\ rawURL[i] \in DecimalDigits \cup {"+", "-", "."}))}
    IN  IF stops = {} THEN [scheme |-> EmptyString, rest |-> rawURL, err |-> "nil"]
        ELSE LET i == CHOOSE x \in stops : \A y \in stops : x <= y
             IN  IF rawURL[i] # ":"
                 THEN [scheme |-> EmptyString, rest |-> rawURL, err |-> "nil"]
                 ELSE IF i = 1
                 THEN [scheme |-> EmptyString, rest |-> EmptyString,
                       err |-> "missing protocol scheme"]
                 ELSE [scheme |-> SubSeq(rawURL, 1, i - 1),
                       rest |-> SubSeq(rawURL, i + 1, Len(rawURL)), err |-> "nil"]

\* validOptionalPort
validOptionalPort(port) ==
    \/ port = EmptyString
    \/ /\ port[1] = ":"
       /\ \A i \in 2..Len(port) : port[i] \in DecimalDigits

\* parseHost
parseHost(host) ==
    LET i == LastIndex(host, ":")
    IN  IF i # 0 /\ ~validOptionalPort(SubSeq(host, i, Len(host))) THEN "invalid port"
        ELSE unescape(host, "host").err

\* validUserinfo
validUserinfo(str) ==
    \A i \in 1..Len(str) :
        \/ str[i] \in Letters \cup DecimalDigits
        \/ str[i] \in {"-", ".", "_", ":", "~", "!", "$", "&", "'", "(", ")", "*", "+", ",",
                       ";", "=", "%", "@"}

\* parseAuthority: the error, if any
parseAuthority(authority) ==
    LET i == LastIndex(authority, "@")
        hostErr == parseHost(SubSeq(authority, i + 1, Len(authority)))
        userinfo == SubSeq(authority, 1, i - 1)
        colon == Index(userinfo, ":")
    IN  IF hostErr # "nil" THEN hostErr
        ELSE IF i = 0 THEN "nil"
        ELSE IF ~validUserinfo(userinfo) THEN "invalid userinfo"
        ELSE IF colon = 0 THEN unescape(userinfo, "path").err
        ELSE IF unescape(SubSeq(userinfo, 1, colon - 1), "path").err # "nil"
        THEN "invalid URL escape"
        ELSE unescape(SubSeq(userinfo, colon + 1, Len(userinfo)), "path").err

\* url.Parse: the error, and the Path of the URL when there is none.
Parse(rawURL) ==
    LET s == getScheme(rawURL)
        rest == s.rest
        slash == HasPrefix(rest, <<"/">>)
        segEnd == Index(rest, "/")
        segment == IF segEnd = 0 THEN rest ELSE SubSeq(rest, 1, segEnd - 1)
        hasAuthority == /\ (s.scheme # EmptyString \/ ~HasPrefix(rest, <<"/", "/", "/">>))
                        /\ HasPrefix(rest, <<"/", "/">>)
        after == SubSeq(rest, 3, Len(rest))
        cut == Index(after, "/")
        authority == IF cut = 0 THEN after ELSE SubSeq(after, 1, cut - 1)
        path == IF ~hasAuthority THEN rest
                ELSE IF cut = 0 THEN EmptyString
                ELSE SubSeq(after, cut, Len(after))
        p == unescape(path, "path")
        fail(e) == [err |-> e, Path |-> EmptyString]
    IN  IF s.err # "nil" THEN fail(s.err)
        ELSE IF ~slash /\ s.scheme # EmptyString THEN [err |-> "nil", Path |-> EmptyString]
        ELSE IF ~slash /\ Index(segment, ":") # 0
        THEN fail("first path segment in URL cannot contain colon")
        ELSE IF hasAuthority /\ parseAuthority(authority) # "nil"
        THEN fail(parseAuthority(authority))
        ELSE IF p.err # "nil" THEN fail(p.err)
        ELSE [err |-> "nil", Path |-> p.value]

\* ------------------------------------------------------------------------
\* The notification content: getRepositoryPath
\* ------------------------------------------------------------------------
GitAtPrefix == <<"g", "i", "t", "@">>
SshScheme == <<"s", "s", "h", ":", "/", "/">>
HttpPrefix == <<"h", "t", "t", "p", ":", "/", "/">>

HasSuffix(str, suffix) ==
    Len(str) >= Len(suffix) /\ SubSeq(str, Len(str) - Len(suffix) + 1, Len(str)) = suffix

TrimSuffix(str, suffix) ==
    IF HasSuffix(str, suffix) THEN SubSeq(str, 1, Len(str) - Len(suffix)) ELSE str

\* git@host:path becomes ssh://git@host/path: the first colon is replaced.
SSHToURL(remote) ==
    LET idx == Index(remote, ":")
    IN  IF HasPrefix(remote, GitAtPrefix) /\ idx # 0
        THEN SshScheme \o SubSeq(remote, 1, idx - 1) \o <<"/">>
             \o SubSeq(remote, idx + 1, Len(remote))
        ELSE remote

\* getRepositoryPath of cmd/publish.go:222: prefixes trimmed, the host cut
\* off at the first colon or else the first slash.
getRepositoryPathV1(remote) ==
    LET trimmed == TrimPrefix(TrimPrefix(TrimPrefix(TrimPrefix(remote, HttpsPrefix),
                                                     HttpPrefix), GitAtPrefix), SshScheme)
        colon == Index(trimmed, ":")
        slash == Index(trimmed, "/")
        path == IF colon # 0 THEN SubSeq(trimmed, colon + 1, Len(trimmed))
                ELSE IF slash # 0 THEN SubSeq(trimmed, slash + 1, Len(trimmed))
                ELSE trimmed
    IN  TrimSuffix(TrimPrefix(path, <<"/">>), DotGit)

\* Mutant: the .git suffix is kept.
getRepositoryPathKeepsSuffix(remote) ==
    LET u == Parse(SSHToURL(remote))
    IN  IF u.err # "nil" THEN remote ELSE TrimPrefix(u.Path, <<"/">>)

\* getRepositoryPath of cmd/publish.go:495: the rewritten URL is parsed, the
\* argument is returned when parsing fails.
getRepositoryPathV2(remote) ==
    LET u == Parse(SSHToURL(remote))
    IN  IF u.err # "nil" THEN remote
        ELSE TrimSuffix(TrimPrefix(u.Path, <<"/">>), DotGit)

\* getRepositoryPath of slack_adapter.go:126: the rewritten URL is assigned
\* to repoURL itself, and that is what a failed parse returns.
getRepositoryPathSlackAdapter(remote) ==
    LET rewritten == SSHToURL(remote)
        u == Parse(rewritten)
    IN  IF u.err # "nil" THEN rewritten
        ELSE TrimSuffix(TrimPrefix(u.Path, <<"/">>), DotGit)

\* The generations whose notifier calls a getRepositoryPath of its own.
RepoPathVariants == {"cmd_part007", "cmd_publish_v1", "cmd_publish_v2"}

getRepositoryPath(v, remote) ==
    CASE v = "cmd_publish_v1" -> getRepositoryPathV1(remote)
      [] v = "cmd_publish_v2" -> getRepositoryPathV2(remote)
      [] OTHER -> getRepositoryPathSlackAdapter(remote)

\* The notifier from the repository line on: getRepositoryPath, the content,
\* the Slack client and one SendTextWithHeader.
NotifyWithRepository ==
    /\ pc = "content"
    /\ \E clientOK, sendOK \in BOOLEAN :
        LET path == getRepositoryPath(variant, repoURL)
            text == IF variant = "cmd_publish_v1" THEN publicURL ELSE storageURI
            d == Deliver(publicURL, text, clientOK, sendOK)
        IN  /\ repoPath' = [set |-> TRUE, value |-> path]
            /\ repoLine' = IF clientOK THEN [set |-> TRUE, value |-> path] ELSE NoRepoPath
            /\ events' = events \o d.events
            /\ message' = d.message
            /\ notifyErr' = d.err
    /\ pc' = "done"
    /\ UNCHANGED <<variant, storageURI, webhookURL, awsRegion, urlSigner, publicURL, signReq,
                   logs, result, callerVars, gitVars, repoURL, runCtx, workVars, procs>>

\* Remotes of both styles for every host, owner and repository name.
Hosts == {<<"h">>, <<"h", ".", "c">>}

NameChars == {"o", "2", "."}

Names == (SeqsUpTo(NameChars, MaxNameLen) \ {EmptyString}) \cup {<<"r">> \o DotGit}

\* A remote up to its owner, in the two styles.
SSHHead(host, owner) == GitAtPrefix \o host \o <<":">> \o owner \o <<"/">>

URLHead(host, owner) == HttpsPrefix \o host \o <<"/">> \o owner \o <<"/">>

SSHRemote(host, owner, repo) == SSHHead(host, owner) \o repo \o DotGit

URLRemote(host, owner, repo) == URLHead(host, owner) \o repo \o DotGit

WellFormedRemotes ==
    {SSHRemote(h, o, r) : h \in Hosts, o \in Names, r \in Names}
        \cup {URLRemote(h, o, r) : h \in Hosts, o \in Names, r \in Names}

\* Every string of up to MaxRepoLen of these after the start of a remote.
RepoChars == {"o", "/", ":", "%", " ", "@"}

RemoteHeads ==
    {EmptyString, GitAtPrefix, GitAtPrefix \o <<"h", ":">>, HttpsPrefix,
     HttpsPrefix \o <<"h", "/">>}

FreeRemotes == {head \o tail : head \in RemoteHeads, tail \in SeqsUpTo(RepoChars, MaxRepoLen)}

RepoURLs == WellFormedRemotes \cup FreeRemotes

InitRepo ==
    /\ variant \in RepoPathVariants
    /\ storageURI = FilePrefix \o <<"b">>
    /\ webhookURL = <<"h", "o", "o", "k">>
    /\ awsRegion = EmptyString
    /\ pc = "content"
    /\ events = << >>
    /\ urlSigner = "unset"
    /\ publicURL = FilePrefix \o <<"b">>
    /\ signReq = NoSignReq
    /\ message = NoMessage
    /\ logs = {}
    /\ notifyErr = Running
    /\ result = Running
    /\ command = "none"
    /\ review = "result"
    /\ stdout = << >>
    /\ pipelineErr = Running
    /\ GitIdle
    /\ repoURL \in RepoURLs
    /\ repoPath = NoRepoPath
    /\ repoLine = NoRepoPath
    /\ runCtx = "live"
    /\ WorkIdle
    /\ procs = << >>

NextRepo == NotifyWithRepository

RepoSpec == InitRepo /\ [][NextRepo]_vars

\* ------------------------------------------------------------------------
\* Properties
\* ------------------------------------------------------------------------
Has(e) == \E i \in 1..Len(events) : events[i] = e

\* Every occurrence of b in the log has an a before it.
Precedes(a, b) ==
    \A i \in 1..Len(events) : events[i] = b => \E j \in 1..(i - 1) : events[j] = a

Done == pc = "done"

\* C1: a runner's Run whose storage write succeeded returns nil, whatever the
\* notifier returned (client construction failure or delivery failure).
C1_RunReturnsNilAfterWrite ==
    (variant \in RunnerVariants /\ Done /\ Has("write_ok")) => result = NilErr

C1_Witness_NotifyFailedRunNil ==
    /\ variant \in RunnerVariants
    /\ Done
    /\ Has("write_ok")
    /\ notifyErr.kind = "error"
    /\ notifyErr.cause = "SendTextWithHeader"
    /\ result = NilErr

\* C2: a failed storage write ends a runner's Run with an error that wraps
\* the writer's error and names the storage URI, and no URL resolution, no
\* signer call and no notification is attempted.
C2_WriteFailureIsFatal ==
    (variant \in RunnerVariants /\ Has("write_fail")) =>
        /\ Done
        /\ result.kind = "error"
        /\ result.cause = "writer.Publish"
        /\ result.uri = storageURI
        /\ ~Has("resolve") /\ ~Has("sign") /\ ~Has("resolved")
        /\ ~Has("slack_client") /\ ~Has("send")
        /\ notifyErr = Running

C2_Witness_WriteFailed ==
    variant \in RunnerVariants /\ Has("write_fail") /\ Done /\ result.kind = "error"

\* C3: once the storage write succeeded, the publish command returns no
\* error, whichever later step fails (HTTP client, Slack client, URL
\* resolution, delivery).
C3_CommandNeverFailsAfterWrite ==
    (variant \in CmdVariants /\ Done /\ Has("write_ok")) => result.kind # "error"

\* C4: the storage write, then URL resolution, then notification: resolution
\* starts only after the write returned success, delivery starts only after
\* resolution finished.
C4_WriteThenResolveThenNotify ==
    /\ Precedes("write_ok", "resolve")
    /\ Precedes("write_ok", "sign")
    /\ Precedes("resolve", "resolved")
    /\ Precedes("resolved", "slack_client")
    /\ Precedes("resolved", "send")
    /\ Precedes("write_ok", "send")
    /\ ~(Has("write_ok") /\ Has("write_fail"))

C4_Witness_FullRun ==
    /\ Done
    /\ Has("write_ok")
    /\ Has("sign")
    /\ Has("resolved")
    /\ Has("send")
    /\ notifyErr = NilErr

\* The signer could not be had, or its GenerateSignedURL call failed.
SignerUnavailable ==
    \/ urlSigner = "nil"
    \/ result.cause = "NewGCSURLSigner"
    \/ "error: url signer failed" \in logs

SigningFailed ==
    \/ "error: signed url failed" \in logs
    \/ (Has("sign") /\ "warn: public url failed" \in logs)

\* Nothing but the signer went wrong before the notification.
OnlySignerWentWrong ==
    result.cause \notin {"writer.Publish", "NewGCSClientFactory", "NewPublisher",
                         "NewPublisherAndSigner", "GetHTTPClient"}

\* C5: for a gs:// URI a signer that cannot be had, or a failed
\* GenerateSignedURL, is not fatal: the artifact is written, the run returns
\* nil and a notification that is sent links to the raw storage URI.
C5_SignerFailureNeverFatal ==
    (/\ IsGCSURI(storageURI)
     /\ Done
     /\ SignerUnavailable \/ SigningFailed
     /\ OnlySignerWentWrong) =>
        /\ Has("write_ok")
        /\ result = NilErr
        /\ (Has("send") => message.link = storageURI)

\* GenerateSignedURL was called and returned a URL.
SigningSucceeded ==
    /\ Has("sign")
    /\ "error: signed url failed" \notin logs
    /\ "warn: public url failed" \notin logs

\* C6: for a gs:// URI whose signing succeeds, the notification links to the
\* signed URL (asked for GET, 30 minutes), not to the gs:// URI, which is
\* the link's display text only.
C6_SignedURLIsTheLink ==
    (IsGCSURI(storageURI) /\ SigningSucceeded /\ Has("send")) =>
        /\ message.link = SignedURLOf(storageURI)
        /\ message.link # storageURI
        /\ message.text = storageURI
        /\ signReq = [method |-> "GET", minutes |-> 30]

\* https://<bucket>.s3.<region>.amazonaws.com/<key>
VirtualHostedURL(bucket, region, key) ==
    HttpsPrefix \o bucket \o <<".", "s", "3", ".">> \o region
        \o <<".", "a", "m", "a", "z", "o", "n", "a", "w", "s", ".", "c", "o", "m", "/">> \o key

ExpectedRegion ==
    IF awsRegion # << >> THEN awsRegion
    ELSE <<"a", "p", "-", "n", "o", "r", "t", "h", "e", "a", "s", "t", "-", "1">>

\* C7: for s3://<bucket>/<key> with a non-empty bucket resolution yields
\* https://<bucket>.s3.<region>.amazonaws.com/<key>, the region being
\* AWS_REGION when set and ap-northeast-1 otherwise, without a signer call
\* and without failing.
C7_S3VirtualHostedURL ==
    (IsS3URI(storageURI) /\ Has("resolved")) =>
        LET body == SubSeq(storageURI, 6, Len(storageURI))
        IN  /\ \A i \in 1..Len(body) :
                (i > 1 /\ body[i] = "/" /\ \A j \in 1..(i - 1) : body[j] # "/") =>
                    publicURL = VirtualHostedURL(SubSeq(body, 1, i - 1), ExpectedRegion,
                                                 SubSeq(body, i + 1, Len(body)))
            /\ ~Has("sign")
            /\ "warn: public url failed" \notin logs

\* C8: for a URI that is neither gs:// nor s3:// resolution returns the URI
\* itself and no error, with or without a signer.
C8_OtherSchemePassthrough ==
    (~IsGCSURI(storageURI) /\ ~IsS3URI(storageURI) /\ Has("resolved")) =>
        /\ publicURL = storageURI
        /\ "warn: public url failed" \notin logs
        /\ ~Has("sign")

C8_Witness_FileURIWithSigner ==
    /\ HasPrefix(storageURI, FilePrefix)
    /\ urlSigner = "ok"
    /\ variant = "runner_part002"
    /\ Has("resolved")
    /\ publicURL = storageURI

\* The generations whose construction of the publisher is in the source.
InitInSource == {"runner_publish_runner", "cmd_publish_v1", "cmd_publish_v2"}

\* C9: with an unsupported scheme the construction of the publisher fails
\* before a GCS or S3 factory is made and before a write, a signing or a
\* notification.
C9_UnsupportedSchemeFailsFirst ==
    (/\ ~IsGCSURI(storageURI)
     /\ ~IsS3URI(storageURI)
     /\ variant \in InitInSource
     /\ pc # "init") =>
        /\ Done
        /\ result.kind = "error"
        /\ \A i \in 1..Len(events) : events[i] = "new_publisher"
        /\ urlSigner = "unset"
        /\ notifyErr = Running

C9_Witness_UnsupportedRefused ==
    /\ HasPrefix(storageURI, FilePrefix)
    /\ variant = "runner_publish_runner"
    /\ Done
    /\ result.cause = "unsupported scheme"
    /\ events = << >>

\* C10: with an empty webhook URL Notify returns nil, makes no Slack client
\* and no delivery call.
C10_EmptyWebhookSkips ==
    (webhookURL = << >> /\ notifyErr # Running) =>
        /\ notifyErr = NilErr
        /\ ~Has("slack_client")
        /\ ~Has("send")
        /\ message = NoMessage

C10_Witness_Skipped ==
    /\ webhookURL = << >>
    /\ variant \in RunnerVariants \cup {"cmd_part007"}
    /\ Done
    /\ Has("write_ok")
    /\ notifyErr = NilErr
    /\ result = NilErr

\* The generations that notify through SlackAdapter.Notify.
SlackAdapterCallers == RunnerVariants \cup {"cmd_part007"}

Count(e) == Cardinality({i \in 1..Len(events) : events[i] = e})

\* C11: with a webhook URL configured, a call of SlackAdapter.Notify makes at
\* most one SendTextWithHeader call, and a failed client construction or a
\* failed delivery comes back as a non-nil error naming that failure.
C11_OneAttemptErrorReturned ==
    (variant \in SlackAdapterCallers /\ webhookURL # EmptyString) =>
        /\ Count("send") <= 1
        /\ Count("slack_client") <= 1
        /\ Has("slack_client_failed") =>
              /\ notifyErr.kind = "error"
              /\ notifyErr.cause = "GetSlackClient"
              /\ ~Has("send")
        /\ Has("send_failed") =>
              /\ notifyErr.kind = "error"
              /\ notifyErr.cause = "SendTextWithHeader"

C11_Witness_DeliveryFailedOnce ==
    /\ variant \in SlackAdapterCallers
    /\ webhookURL # EmptyString
    /\ Done
    /\ Has("send_failed")
    /\ Count("send") = 1
    /\ notifyErr.kind = "error"

\* What the entry point handed back to the user.
CommandReturn == IF command = "ReviewAndPublish" THEN pipelineErr ELSE result

\* No part of the publish pipeline has run: no publisher or signer was
\* constructed, nothing was written and no notifier was called.
PublishNotStarted ==
    /\ events = << >>
    /\ urlSigner = "unset"
    /\ message = NoMessage
    /\ notifyErr = Running

ReviewCause ==
    IF review = "build_error" THEN "BuildReviewRunner" ELSE "reviewRunner.Run"

\* C13: when the review pipeline fails with an error other than the skip
\* signal, ReviewAndPublish returns an error wrapping that cause and no part
\* of the publish pipeline is started.
C13_ReviewFailureStopsPublish ==
    (command = "ReviewAndPublish" /\ review \in {"build_error", "run_error"}) =>
        /\ pc = "returned"
        /\ pipelineErr.kind = "error"
        /\ pipelineErr.cause = ReviewCause
        /\ result = Running
        /\ PublishNotStarted

C13_Witness_ReviewFailed ==
    /\ command = "ReviewAndPublish"
    /\ review = "run_error"
    /\ pc = "returned"
    /\ pipelineErr.kind = "error"
    /\ pipelineErr.cause = "reviewRunner.Run"

CloneOrUpdateReturned == gitOp.name = "CloneOrUpdate"

\* C14: a local path that exists and is not a git repository (a directory
\* without .git, or a file) makes CloneOrUpdate return an error, launch no
\* git subprocess and leave the filesystem as it was.
C14_NotAGitRepoIsRefused ==
    (CloneOrUpdateReturned /\ RepositoryState(gitOp.pre, localPath) = "PresentNotAGitRepo") =>
        /\ gitRet.err.kind = "error"
        /\ gitCalls = << >>
        /\ fs = gitOp.pre

C14_Witness_DirectoryWithContentRefused ==
    /\ CloneOrUpdateReturned
    /\ RepositoryState(gitOp.pre, localPath) = "PresentNotAGitRepo"
    /\ KindOf(gitOp.pre, Elements(localPath)) = "dir"
    /\ Exists(gitOp.pre, Append(Elements(localPath), <<"f">>))
    /\ gitRet.err.kind = "error"
    /\ gitRet.err.cause = "not a repository"

CloneSucceeded ==
    /\ CloneOrUpdateReturned
    /\ Len(gitCalls) = 1
    /\ gitCalls[1].cmd = "clone"
    /\ gitRet.err = GitNil

\* C15: from Absent, a successful clone leaves the local path a git
\* repository; nothing that existed is touched, and what is new is either a
\* missing ancestor directory of the local path, made with mode 0755, or the
\* clone target named by the last element of the local path.
C15_AbsentBecomesGitRepo ==
    (CloneSucceeded /\ RepositoryState(gitOp.pre, localPath) = "Absent") =>
        /\ RepositoryState(fs, localPath) = "PresentGitRepo"
        /\ gitOp.pre \subseteq fs
        /\ \A n \in fs \ gitOp.pre :
            \/ /\ IsPrefixOf(n.path, Elements(localPath))
               /\ n.path # Elements(localPath)
               /\ n.kind = "dir"
               /\ n.mode = "0755"
            \/ /\ IsPrefixOf(Elements(localPath), n.path)
               /\ n.mode = "git"

\* The same, for local paths written without a trailing separator.
NoTrailingSeparatorCloneMakesRepo ==
    (localPath[Len(localPath)] # PathSeparator) => C15_AbsentBecomesGitRepo

GetCodeDiffReturned == gitOp.name = "GetCodeDiff"

\* Every command of the call was started and ran to its own exit.
CommandsRan == gitOp.fault = NoFault /\ Stat(fs, localPath) = [err |-> "nil", isDir |-> TRUE]

\* The two ref verifications and the diff command all exited zero.
DiffCommandSucceeded ==
    /\ CommandsRan
    /\ Resolves(fs, localPath, refs, OriginRef(gitOp.base))
    /\ Resolves(fs, localPath, refs, OriginRef(gitOp.feature))

\* C16: GetCodeDiff returns the empty string and a nil error when the diff
\* command succeeds and prints nothing, and a non-nil error whenever a ref
\* verification or the diff command fails, so the error value tells an empty
\* diff from a failure.
C16_EmptyDiffIsNotAnError ==
    GetCodeDiffReturned =>
        /\ (DiffCommandSucceeded /\ gitOp.printed = EmptyString) =>
               (gitRet.out = EmptyString /\ gitRet.err = GitNil)
        /\ ~DiffCommandSucceeded => (gitRet.err.kind = "error" /\ gitRet.out = EmptyString)
        /\ DiffCommandSucceeded => gitRet.err = GitNil

C16_Witness_EmptyDiffOfTwoBranches ==
    /\ GetCodeDiffReturned
    /\ DiffCommandSucceeded
    /\ gitOp.base # gitOp.feature
    /\ gitOp.printed = EmptyString
    /\ gitRet.out = EmptyString
    /\ gitRet.err = GitNil

CheckRemoteBranchExistsReturned == gitOp.name = "CheckRemoteBranchExists"

\* C17: for a non-empty branch whose verification command runs,
\* CheckRemoteBranchExists returns (true, nil) when origin/<branch> resolves
\* and (false, nil) when it does not; a ref that is not found is never an
\* error.
C17_RefNotFoundIsFalseNil ==
    (CheckRemoteBranchExistsReturned /\ gitOp.base # EmptyString /\ CommandsRan) =>
        /\ gitRet.err = GitNil
        /\ gitRet.exists = Resolves(fs, localPath, refs, OriginRef(gitOp.base))

C17_Witness_MissingRefIsFalse ==
    /\ CheckRemoteBranchExistsReturned
    /\ gitOp.base # EmptyString
    /\ CommandsRan
    /\ refs # {}
    /\ gitOp.base \notin refs
    /\ gitRet.exists = FALSE
    /\ gitRet.err = GitNil

\* C18: when the verification command cannot be executed at all (git cannot
\* be launched, or the context is already cancelled), CheckRemoteBranchExists
\* returns a non-nil error and not (false, nil).
C18_BrokenGitIsAnError ==
    (CheckRemoteBranchExistsReturned /\ gitOp.fault.how \in {"launch", "cancelled"}) =>
        gitRet.err.kind = "error"

\* C20: the diff command GetCodeDiff(base, feature) issues has the range
\* origin/<base>...origin/<feature> and --unified=10, and for base # feature
\* it is not the range issued for (feature, base).
C20_DiffRangeBaseFirst ==
    (GetCodeDiffReturned /\ Len(gitCalls) = 3) =>
        /\ gitCalls[3].cmd = "diff"
        /\ gitCalls[3].opts = <<"--unified=10">>
        /\ gitCalls[3].operands =
               <<OriginSlash \o gitOp.base \o <<".", ".", ".">> \o OriginSlash \o gitOp.feature>>
        /\ (/\ prevDiff.issued
            /\ prevDiff.base = gitOp.feature
            /\ prevDiff.feature = gitOp.base
            /\ gitOp.base # gitOp.feature) => prevDiff.range # gitCalls[3].operands[1]

C20_Witness_BothOrdersIssued ==
    /\ GetCodeDiffReturned
    /\ Len(gitCalls) = 3
    /\ gitOp.base # gitOp.feature
    /\ prevDiff.issued
    /\ prevDiff.base = gitOp.feature
    /\ prevDiff.feature = gitOp.base
    /\ gitRet.err = GitNil

GetEnvWithSSHReturned == gitOp.name = "getEnvWithSSH"

Chars(str) == {str[i] : i \in 1..Len(str)}

Words(texts) == [i \in 1..Len(texts) |-> Word(texts[i])]

\* C19: whatever the SSH key path is made of, its quoted form is one shell
\* token equal to the path, and GIT_SSH_COMMAND splits into ssh, -i, the
\* path, -F, /dev/null and, when host key checking is skipped, -o
\* StrictHostKeyChecking=no: nothing else.
C19_QuotedKeyPathIsOneToken ==
    (GetEnvWithSSHReturned /\ sshCmd.set) =>
        /\ ShellTokens(quotePathForShell(sshKeyPath)) = <<Word(sshKeyPath)>>
        /\ ShellTokens(sshCmd.value) =
               Words(<<SshWord, DashI, sshKeyPath, DashF, DevNull>>
                     \o (IF insecureSkip THEN <<DashO, StrictHostKeyCheckingNo>> ELSE << >>))

C19_Witness_QuoteSpaceAndOperatorInPath ==
    /\ GetEnvWithSSHReturned
    /\ sshCmd.set
    /\ {Quote, Space, Semicolon} \subseteq Chars(sshKeyPath)
    /\ insecureSkip
    /\ Len(ShellTokens(sshCmd.value)) = 7

RepositoryPathReturned == pc = "done" /\ repoPath.set

\* C21: every getRepositoryPath maps git@<host>:<owner>/<repo>.git and
\* https://<host>/<owner>/<repo>.git to <owner>/<repo>: host and leading
\* slash gone, one trailing .git stripped.
C21_BothStylesGiveOwnerRepo ==
    RepositoryPathReturned =>
        \A h \in Hosts, o \in Names :
            (HasPrefix(repoURL, SSHHead(h, o)) \/ HasPrefix(repoURL, URLHead(h, o))) =>
                \A r \in Names :
                    repoURL \in {SSHRemote(h, o, r), URLRemote(h, o, r)} =>
                        repoPath.value = o \o <<"/">> \o r

C21_Witness_SSHRemoteWithDotGitName ==
    /\ RepositoryPathReturned
    /\ repoURL = SSHRemote(<<"h", ".", "c">>, <<"o">>, <<"r">> \o DotGit)
    /\ repoPath.value = <<"o", "/", "r", ".", "g", "i", "t">>
    /\ repoLine = repoPath

\* The URL handed to url.Parse is rejected.
CannotBeParsed(url) == Parse(SSHToURL(url)).err # "nil"

\* C22: where the repository URL is parsed, a URL that cannot be parsed
\* makes getRepositoryPath return the string it was given, unchanged, also
\* when that starts with git@, and the notifier goes on to the Slack client
\* with it.
C22_UnparseableURLReturnedAsGiven ==
    (RepositoryPathReturned /\ variant # "cmd_publish_v1" /\ CannotBeParsed(repoURL)) =>
        /\ repoPath.value = repoURL
        /\ Has("slack_client")
        /\ repoLine.set => repoLine.value = repoURL

\* The same, for cmd/publish.go:495 alone.
UnparseableURLReturnedAsGivenV2 ==
    variant = "cmd_publish_v2" => C22_UnparseableURLReturnedAsGiven

\* The git command a cancelled context stopped is the last one of its call.
CancelledCommandIsLast == gitOp.fault.how = "cancelled" => Len(gitCalls) = gitOp.fault.at

\* The signing calls and webhook deliveries made so far.
CallsMade(ev) == Cardinality({i \in 1..Len(ev) : ev[i] \in {"sign", "send"}})

\* C23: once the context is cancelled during a step, no later step is
\* attempted: a cancelled git command is the last command of its adapter
\* call, and after a cancellation during the write or during URL signing the
\* run makes no signing call and no webhook delivery.
C23_NoStepAfterCancellation ==
    /\ []CancelledCommandIsLast
    /\ [][runCtx = "cancelled" => CallsMade(events') = CallsMade(events)]_vars

\* The half of C23 that the orchestrator keeps: a cancellation during the
\* write ends the run with no signing call and no delivery.
CancelledWriteEndsRun ==
    (runCtx = "cancelled" /\ ~Has("resolve")) =>
        (pc = "done" /\ result.kind = "error" /\ CallsMade(events) = 0)

\* What the two os.Stat calls of the detection can report besides success
\* and a missing path.
StatFailed(f, lp) ==
    \/ Stat(f, lp).err \notin {"nil", "ENOENT"}
    \/ /\ Stat(f, lp) = [err |-> "nil", isDir |-> TRUE]
       /\ Stat(f, Join(lp, DotGit)).err \notin {"nil", "ENOENT"}

\* C24: CloneOrUpdate launches the clone only when the local path is
\* Absent; an existing git repository gives nil and no git command; every
\* other state, a stat error other than not-exist included, gives an error,
\* no git command and an untouched filesystem.
C24_CloneOnlyFromAbsent ==
    CloneOrUpdateReturned =>
        /\ gitCalls # << >> =>
            /\ RepositoryState(gitOp.pre, localPath) = "Absent"
            /\ Len(gitCalls) = 1
            /\ gitCalls[1].cmd = "clone"
        /\ (RepositoryState(gitOp.pre, localPath) = "PresentGitRepo"
                /\ ~StatFailed(gitOp.pre, localPath)) =>
            /\ gitRet.err = GitNil
            /\ gitCalls = << >>
            /\ fs = gitOp.pre
        /\ (RepositoryState(gitOp.pre, localPath) = "PresentNotAGitRepo"
                \/ StatFailed(gitOp.pre, localPath)) =>
            /\ gitRet.err.kind = "error"
            /\ gitCalls = << >>
            /\ fs = gitOp.pre

\* An ancestor of the local path is a file: os.Stat fails with ENOTDIR,
\* and CloneOrUpdate returns the wrapped error without cloning.
C24_Witness_StatErrorRefusedWithoutClone ==
    /\ CloneOrUpdateReturned
    /\ Stat(gitOp.pre, localPath).err = "ENOTDIR"
    /\ RepositoryState(gitOp.pre, localPath) = "Absent"
    /\ gitRet.err.kind = "error"
    /\ gitRet.err.cause = "ENOTDIR"
    /\ gitCalls = << >>

\* The i-th command of the call is `git rev-parse --verify <ref>`.
IsVerifyOf(i, ref) ==
    /\ gitCalls[i].cmd = "rev-parse"
    /\ gitCalls[i].opts = <<"--verify">>
    /\ gitCalls[i].operands = <<ref>>

\* The verification of the ref, run as the i-th command, does not succeed.
VerifyFails(i, ref) ==
    \/ gitOp.fault.at = i
    \/ ~Resolves(gitOp.pre, localPath, refs, ref)

\* C25: GetCodeDiff verifies origin/<base> first and origin/<feature>
\* second and runs the diff only after both succeeded; a failed base
\* verification is the only command and the error names the base ref; a
\* failed feature verification after a good base one is the last command and
\* the error names the feature ref.
C25_BothRefsVerifiedBeforeDiff ==
    GetCodeDiffReturned =>
        LET baseRef == OriginRef(gitOp.base)
            featureRef == OriginRef(gitOp.feature)
        IN  /\ Len(gitCalls) >= 1 /\ IsVerifyOf(1, baseRef)
            /\ Len(gitCalls) >= 2 => IsVerifyOf(2, featureRef)
            /\ (\E i \in 1..Len(gitCalls) : gitCalls[i].cmd = "diff") =>
                /\ Len(gitCalls) = 3
                /\ gitCalls[3].cmd = "diff"
                /\ ~VerifyFails(1, baseRef)
                /\ ~VerifyFails(2, featureRef)
            /\ VerifyFails(1, baseRef) =>
                /\ Len(gitCalls) = 1
                /\ gitRet.err.kind = "error"
                /\ gitRet.err.ref = baseRef
            /\ (~VerifyFails(1, baseRef) /\ VerifyFails(2, featureRef)) =>
                /\ Len(gitCalls) = 2
                /\ gitRet.err.kind = "error"
                /\ gitRet.err.ref = featureRef
            /\ (~VerifyFails(1, baseRef) /\ ~VerifyFails(2, featureRef)) => Len(gitCalls) = 3

\* The base branch was fetched and the feature branch was not: two
\* verifications, no diff, and the error names origin/f.
C25_Witness_OnlyFeatureRefMissing ==
    /\ GetCodeDiffReturned
    /\ gitOp.base = <<"m">>
    /\ gitOp.feature = <<"f">>
    /\ gitOp.fault = NoFault
    /\ refs = {<<"m">>}
    /\ Len(gitCalls) = 2
    /\ gitRet.err.ref = OriginRef(<<"f">>)
    /\ gitRet.err.cause = "exit status"

RunGitCommandReturned == gitOp.name = "runGitCommand"

\* The git binary was started in the local path.
Launched ==
    /\ gitOp.fault.how \in {"ok", "exit"}
    /\ Stat(gitOp.pre, localPath) = [err |-> "nil", isDir |-> TRUE]

\* The command ran and exited non-zero.
ExitedNonZero ==
    /\ Launched
    /\ gitOp.fault.how = "exit" \/ ~Resolves(gitOp.pre, localPath, refs, OriginRef(gitOp.base))

\* The command could not be started.
LaunchFailed ==
    \/ gitOp.fault.how = "launch"
    \/ gitOp.fault.how # "cancelled"
            /\ Stat(gitOp.pre, localPath) # [err |-> "nil", isDir |-> TRUE]

\* C26: on a non-zero exit runGitCommand returns the trimmed combined
\* output together with an error that carries the exit status; on a launch
\* failure it returns an error of another kind that wraps the cause, and no
\* output.
C26_OutputReturnedWithExitError ==
    RunGitCommandReturned =>
        /\ ExitedNonZero =>
            /\ gitRet.out = TrimSpace(gitOp.printed)
            /\ gitRet.err.kind = "error"
            /\ gitRet.err.cause = "exit status"
        /\ LaunchFailed =>
            /\ gitRet.out = EmptyString
            /\ gitRet.err.kind = "error"
            /\ gitRet.err.msg # "git command failed"
            /\ gitRet.err.cause = "launch"
            /\ gitRet.err.output = EmptyString

\* What runGitCommand does on a failure: the string returned is empty in
\* both cases; the trimmed output of a non-zero exit is part of the error
\* message, next to the exit status, and a launch failure wraps its cause.
FailureOutputOnlyInErrorMessage ==
    RunGitCommandReturned =>
        /\ ExitedNonZero =>
            /\ gitRet.out = EmptyString
            /\ gitRet.err.msg = "git command failed"
            /\ gitRet.err.cause = "exit status"
            /\ gitRet.err.output = TrimSpace(gitOp.printed)
        /\ LaunchFailed =>
            /\ gitRet.out = EmptyString
            /\ gitRet.err.msg = "unexpected git error"
            /\ gitRet.err.cause = "launch"
            /\ gitRet.err.output = EmptyString

CleanupReturned == gitOp.name = "Cleanup"

\* The i-th command of the call is `git <cmd> <opts> <operands>`.
IsCommand(i, cmd, opts, operands) ==
    /\ gitCalls[i].cmd = cmd
    /\ gitCalls[i].opts = opts
    /\ gitCalls[i].operands = operands

\* C28: Cleanup runs fetch origin, then checkout -B <base> origin/<base>,
\* then clean -f -d, in that order; the first command that fails is the last
\* one run and Cleanup returns an error.
C28_CleanupCommandsInOrder ==
    CleanupReturned =>
        /\ Len(gitCalls) \in 1..3
        /\ IsCommand(1, "fetch", << >>, <<<<"origin">>>>)
        /\ Len(gitCalls) >= 2 =>
            IsCommand(2, "checkout", <<"-B">>, <<gitOp.base, OriginRef(gitOp.base)>>)
        /\ Len(gitCalls) = 3 => IsCommand(3, "clean", <<"-f", "-d">>, << >>)
        /\ \A i \in 1..3 : gitOp.fault.at = i =>
            (Len(gitCalls) = i /\ gitRet.err.kind = "error")
        /\ RepositoryState(gitOp.pre, localPath) # "PresentGitRepo" =>
            (Len(gitCalls) = 1 /\ gitRet.err.kind = "error")
        /\ (RepositoryState(gitOp.pre, localPath) = "PresentGitRepo"
                /\ gitOp.fault.at # 1 /\ gitOp.base \notin refs) =>
            (Len(gitCalls) = 2 /\ gitRet.err.kind = "error")
        /\ Len(gitCalls) < 3 => gitRet.err.kind = "error"
        /\ gitRet.err.kind = "error" => (fs = gitOp.pre /\ gitRet.err.cause # "")

\* The checkout exits non-zero after a good fetch: clean is not run and the
\* leftovers stay.
C28_Witness_CheckoutFailedNoClean ==
    /\ CleanupReturned
    /\ gitOp.fault = [at |-> 2, how |-> "exit"]
    /\ Len(gitCalls) = 2
    /\ gitCalls[2].cmd = "checkout"
    /\ gitRet.err.kind = "error"
    /\ Untracked(fs, localPath) # {}

\* The remote is as the Cleanup before fetched it.
RemoteUnchanged ==
    \A b \in DOMAIN origin : CommitOf(prevCleanup.work.tracking, b) = origin[b]

\* C29: with the remote unchanged, a Cleanup right after a Cleanup that
\* returned nil returns nil and leaves what the first one left: the local
\* base branch checked out at origin/<base>, and nothing untracked.
C29_CleanupIsIdempotent ==
    (CleanupReturned /\ prevCleanup.ok /\ RemoteUnchanged /\ gitOp.fault = NoFault) =>
        /\ gitRet.err = GitNil
        /\ fs = prevCleanup.fs
        /\ refs = prevCleanup.refs
        /\ work = prevCleanup.work
        /\ work.branch = baseBranch
        /\ CommitOf(work.heads, baseBranch) = origin[baseBranch]
        /\ CommitOf(work.tracking, baseBranch) = origin[baseBranch]
        /\ Untracked(fs, localPath) = {}

\* Base branch f, which the clone did not check out, after a push to it:
\* the first Cleanup created the branch at the pushed commit, the second one
\* found it there.
C29_Witness_SecondCleanupOfCreatedBranch ==
    /\ CleanupReturned
    /\ prevCleanup.ok
    /\ RemoteUnchanged
    /\ gitRet.err = GitNil
    /\ baseBranch = <<"f">>
    /\ origin[<<"f">>] = 2
    /\ work.heads[<<"f">>] = 2
    /\ Len(gitCalls) = 3

\* ssh -i <quoted key> -F /dev/null, with -o StrictHostKeyChecking=no after
\* it when host key checking is skipped.
ExpectedSshCommand(key, insecure) ==
    <<"s", "s", "h", " ", "-", "i", " ">> \o quotePathForShell(key)
        \o <<" ", "-", "F", " ">> \o DevNull
        \o (IF insecure THEN <<" ", "-", "o", " ">> \o StrictHostKeyCheckingNo ELSE << >>)

GitCommands == {"clone", "fetch", "rev-parse", "diff", "checkout", "clean"}

\* C27: every git subprocess of the adapter has GIT_SSH_COMMAND in its
\* environment exactly when the SSH key path is not empty; its value is
\* ssh -i <quoted key> -F /dev/null, followed by
\* -o StrictHostKeyChecking=no exactly when the host key check is skipped.
C27_SameSshEnvironmentForEveryCommand ==
    \A i \in 1..Len(gitCalls) :
        /\ gitCalls[i].cmd \in GitCommands
        /\ gitCalls[i].env.set <=> sshKeyPath # EmptyString
        /\ gitCalls[i].env.set =>
            gitCalls[i].env.value = ExpectedSshCommand(sshKeyPath, insecureSkip)

\* A Cleanup with a key and host key checking skipped: fetch, checkout and
\* clean ran with the option in their environment.
C27_Witness_CleanupWithKeySkippingHostKeyCheck ==
    /\ CleanupReturned
    /\ sshKeyPath = <<"k">>
    /\ insecureSkip
    /\ Len(gitCalls) = 3
    /\ \A i \in 1..3 :
        /\ gitCalls[i].env.set
        /\ gitCalls[i].env.value
            = ExpectedSshCommand(<<"k">>, FALSE) \o <<" ", "-", "o", " ">>
                \o StrictHostKeyCheckingNo

\* The run saw nothing at the local path and has a parent directory for
\* the clone.
ObservedAbsent(run) == IsNotExist(run.info) /\ run.mk = "nil"

\* C30: detection and clone are separate steps with no lock and no second
\* look between them: every run that observed the local path absent
\* launches its clone, whatever another run did to the path in between; so
\* two runs can both observe it absent and both launch a clone into the
\* same target.
C30_CloneFollowsStaleObservation ==
    /\ \A p \in DOMAIN procs :
        /\ (procs[p].pc = "done" /\ ObservedAbsent(procs[p])) => procs[p].launched
        /\ procs[p].launched => ObservedAbsent(procs[p])
    /\ Len(gitCalls) = Cardinality({p \in DOMAIN procs : procs[p].launched})
    /\ \A i \in 1..Len(gitCalls) : gitCalls[i] = gitCalls[1]

\* Two runs both saw the path absent and both launched git clone with the
\* same directory and target; the first made the repository, the second
\* found the target taken and failed.
C30_Witness_BothObservedAbsentBothCloned ==
    /\ \A p \in {1, 2} :
        /\ procs[p].pc = "done"
        /\ ObservedAbsent(procs[p])
        /\ procs[p].launched
    /\ Len(gitCalls) >= 2
    /\ gitCalls[1].cmd = "clone"
    /\ gitCalls[2] = gitCalls[1]
    /\ \E p, q \in {1, 2} :
        /\ procs[p].err = GitNil
        /\ procs[q].err.kind = "error"
        /\ procs[q].err.cause = "exit status"
    /\ RepositoryState(fs, localPath) = "PresentGitRepo"


============================================================================
